---- MODULE Spec2Model ----
(***************************************************************************)
(* BreezeAPI core: the trie router for API routes (ApiRouter), the route   *)
(* module loader, and the per-request middleware pipeline built by         *)
(* BreezeAPI._createApiHandler (global middleware, schema validation,      *)
(* guards / route middleware, handler).                                    *)
(***************************************************************************)
EXTENDS Integers, Sequences, FiniteSets, TLC

(***************************************************************************)
(* Bounds of the model.                                                    *)
(***************************************************************************)
\* route modules loaded before serve() (router specification)
MaxRoutes == 2
\* pieces of a request pathname (the parts between slashes)
MaxPieces == 2
\* global middleware registered before serve()
MaxGlobal == 2
\* page files found by one scan of the pages directory
MaxPages == 2
\* WebSocket connections upgraded while the server runs
MaxSockets == 2
\* send(data, event?) calls of one SSE handler
MaxSends == 2
\* chunks of the ReadableStream an SSE handler returns
MaxChunks == 2
\* seconds the clock of the cron jobs runs
MaxTime == 4
\* executions of one cron job running at the same time
MaxRunning == 2

(***************************************************************************)
(* Small helpers on sequences and functions.                               *)
(***************************************************************************)
EmptyParams == [x \in {} |-> ""]
NoneReceived == <<>>

RECURSIVE SeqsUpTo(_, _)
SeqsUpTo(S, n) ==
    IF n = 0 THEN {<<>>}
    ELSE LET shorter == SeqsUpTo(S, n - 1)
         IN  shorter \cup {Append(s, x) : s \in {t \in shorter : Len(t) = n - 1}, x \in S}

Reverse(s) == [i \in 1..Len(s) |-> s[Len(s) + 1 - i]]

Range(s) == {s[i] : i \in 1..Len(s)}

(***************************************************************************)
(* utils/routing: ROUTE_CONSTANTS and HTTP_METHODS.  Strings are opaque to *)
(* TLC, so startsWith / slice are given on the folder and segment names    *)
(* the model uses.                                                         *)
(***************************************************************************)
HTTP_METHODS == {"GET", "POST", "PUT", "DELETE", "PATCH", "HEAD", "OPTIONS"}

\* directory names of the form [param]
DynamicFolders == {"[id]", "[name]"}
\* directory names of the form (group)
GroupingFolders == {"(g)"}
\* route segments starting with DYNAMIC_SEGMENT_PREFIX
DynamicSegments == {":id", ":name"}

\* ROUTE_CONSTANTS.DYNAMIC_SEGMENT_PREFIX + segment.slice(1, -1)
DynamicSegmentOf(folder) ==
    CASE folder = "[id]" -> ":id"
      [] folder = "[name]" -> ":name"

\* segment.startsWith(':')
IsDynamic(segment) == segment \in DynamicSegments

\* segment.slice(1)
ParamNameOf(segment) ==
    CASE segment = ":id" -> "id"
      [] segment = ":name" -> "name"

\* String.prototype.toUpperCase / toLowerCase on method names
ToUpperCase(m) ==
    CASE m \in {"GET", "get"} -> "GET"
      [] m \in {"POST", "post"} -> "POST"
      [] OTHER -> m

ToLowerCase(m) ==
    CASE m \in {"GET", "get"} -> "get"
      [] m \in {"POST", "post"} -> "post"
      [] OTHER -> m

(***************************************************************************)
(* utils: normalizePath.  A pathname "/a//b/" is given by its pieces, the  *)
(* result of splitting at "/" without the empty string before the leading  *)
(* slash: <<"a", "", "b", "">>.  "/" is <<"">>.                            *)
(***************************************************************************)
NonEmpty(piece) == piece # ""

\* path.replace(/\/+/g, '/'): runs of slashes collapse, a trailing slash stays
CollapseSlashes(pieces) ==
    LET kept == SelectSeq(pieces, NonEmpty)
    IN  IF pieces # <<>> /\ pieces[Len(pieces)] = "" THEN Append(kept, "") ELSE kept

NormalizePath(pieces) ==
    LET normalized == CollapseSlashes(pieces)
    IN  IF Len(normalized) > 1 /\ normalized[Len(normalized)] = ""
        THEN SubSeq(normalized, 1, Len(normalized) - 1)
        ELSE normalized

\* reqPath.split('/').filter(Boolean)
Segments(pieces) == SelectSeq(pieces, NonEmpty)

(***************************************************************************)
(* Route modules and route definitions.                                    *)
(*                                                                         *)
(* A middleware function is known by its name.  A config value             *)
(* (config.middleware, config.guards, config[method].middleware) is        *)
(* absent, an array, or a named mapping, with its entries in order.        *)
(***************************************************************************)
Absent == [shape |-> "none", items |-> <<>>]
ArrayOf(items) == [shape |-> "array", items |-> items]
MappingOf(items) == [shape |-> "map", items |-> items]

IsArray(v) == v.shape = "array"
Truthy(v) == v.shape # "none"

NoRoute == [absent |-> TRUE]
NoName == "<unset>"
\* the edge of a trie node to its paramChild
ParamEdge == "<param>"

\* ApiRouter.convertFilePathToRoute (prefix ''), on the directories of the
\* file path; the result is the route path as its segments
RECURSIVE ConvertFilePathToRoute(_)
ConvertFilePathToRoute(dirs) ==
    IF dirs = <<>> THEN <<>>
    ELSE LET segment == Head(dirs)
             rest == ConvertFilePathToRoute(Tail(dirs))
         IN  IF segment = "" THEN rest
             ELSE IF segment \in GroupingFolders THEN rest
             ELSE IF segment \in DynamicFolders THEN <<DynamicSegmentOf(segment)>> \o rest
             ELSE <<segment>> \o rest

\* An entry of a config is a function, given by its name, or an object
\* { handler, options? }, a MiddlewareDefinition / GuardDefinition.  The
\* function made from a definition calls handler(req, res, next, config).
NoOptions == "<undefined>"
EmptyOptions == "{}"
Definition(handler, options) == [handler |-> handler, options |-> options]
DefinitionOf ==
    [entry \in {"{G2,admin}", "{C1,ttl}", "{C1}"} |->
        CASE entry = "{G2,admin}" -> Definition("G2", "admin")
          [] entry = "{C1,ttl}" -> Definition("C1", "ttl")
          [] entry = "{C1}" -> Definition("C1", NoOptions)]
DefinitionNames == DOMAIN DefinitionOf
\* what a configured function calls: the handler and its fourth argument
CallOf ==
    [f \in {"G2(admin)", "C1(ttl)", "C1({})"} |->
        CASE f = "G2(admin)" -> Definition("G2", "admin")
          [] f = "C1(ttl)" -> Definition("C1", "ttl")
          [] f = "C1({})" -> Definition("C1", EmptyOptions)]
ConfiguredNames == DOMAIN CallOf

\* const config = def.options || {}; the function that passes it on
ConfiguredMiddleware(entry) ==
    LET handler == DefinitionOf[entry].handler
        config == IF DefinitionOf[entry].options = NoOptions THEN EmptyOptions
                  ELSE DefinitionOf[entry].options
    IN  CHOOSE f \in ConfiguredNames : CallOf[f] = Definition(handler, config)

\* the loop over Object.entries: a function is pushed as it is, a
\* definition as its configured function
RECURSIVE ProcessEntries(_)
ProcessEntries(entries) ==
    IF entries = <<>> THEN <<>>
    ELSE LET first == Head(entries)
         IN  <<IF first \in DefinitionNames THEN ConfiguredMiddleware(first) ELSE first>>
             \o ProcessEntries(Tail(entries))

\* ApiRouter.processMiddlewareConfig: an array is returned as it is, the
\* entries of a mapping are processed in order
ProcessMiddlewareConfig(middlewareConfig) ==
    IF IsArray(middlewareConfig) THEN middlewareConfig.items
    ELSE ProcessEntries(middlewareConfig.items)

\* ApiRouter.processGuardsConfig
ProcessGuardsConfig(guardsConfig) ==
    IF IsArray(guardsConfig) THEN guardsConfig.items
    ELSE ProcessEntries(guardsConfig.items)

\* ApiRouter.scanDirectory, dynamicFolderFound: on the way to the file the
\* scan enters a dynamic folder of a directory in which it has met another
\* dynamic folder.  A directory is known by the route.ts files below it.
DynamicFolderConflict(loaded, module) ==
    \E f \in loaded : \E k \in 1..Len(module.dirs) :
        /\ module.dirs[k] \in DynamicFolders
        /\ Len(f.dirs) >= k
        /\ SubSeq(f.dirs, 1, k - 1) = SubSeq(module.dirs, 1, k - 1)
        /\ f.dirs[k] \in DynamicFolders
        /\ f.dirs[k] # module.dirs[k]

\* ApiRouter.loadRouteModule: the RouteDefinition built from a module
LoadRouteModule(module) ==
    LET legacy == IF IsArray(module.middleware) THEN module.middleware.items ELSE <<>>
        middlewareArray == IF Truthy(module.config.middleware)
                           THEN legacy \o ProcessMiddlewareConfig(module.config.middleware)
                           ELSE legacy
        guardsArray == IF Truthy(module.config.guards)
                       THEN ProcessGuardsConfig(module.config.guards) ELSE <<>>
        combinedMiddleware == guardsArray \o middlewareArray
    IN  [path |-> ConvertFilePathToRoute(module.dirs),
         handlers |-> module.exports \cap HTTP_METHODS,
         middleware |-> combinedMiddleware,
         schema |-> module.schema,
         config |-> module.config]

(***************************************************************************)
(* The trie.  A node is known by the edges leading to it from the root: a  *)
(* static child by its segment, the paramChild by ParamEdge.  root maps    *)
(* every existing node to its paramName and its route.                     *)
(***************************************************************************)
NewNode == [paramName |-> NoName, route |-> NoRoute]
EmptyTrie == (<<>> :> NewNode)

HasChild(root, node, segment) ==
    segment # ParamEdge /\ Append(node, segment) \in DOMAIN root
HasParamChild(root, node) == Append(node, ParamEdge) \in DOMAIN root

WithNode(root, node) == IF node \in DOMAIN root THEN root ELSE (node :> NewNode) @@ root

\* the loop of ApiRouter.insertRoute: the trie and the node reached
RECURSIVE InsertWalk(_, _, _)
InsertWalk(root, node, segments) ==
    IF segments = <<>> THEN [root |-> root, node |-> node]
    ELSE LET segment == Head(segments)
         IN  IF IsDynamic(segment)
             THEN LET child == Append(node, ParamEdge)
                      made == WithNode(root, child)
                      named == [made EXCEPT ![child].paramName = ParamNameOf(segment)]
                  IN  InsertWalk(named, child, Tail(segments))
             ELSE LET child == Append(node, segment)
                  IN  InsertWalk(WithNode(root, child), child, Tail(segments))

\* an insertion that adds the handlers of the route already at the node
InsertRouteMergingHandlers(root, routeDef) ==
    LET w == InsertWalk(root, <<>>, SelectSeq(routeDef.path, NonEmpty))
        earlier == w.root[w.node].route
    IN  [w.root EXCEPT ![w.node].route =
            IF earlier = NoRoute THEN routeDef
            ELSE [routeDef EXCEPT !.handlers = earlier.handlers \cup routeDef.handlers]]

\* ApiRouter.insertRoute
InsertRoute(root, routeDef) ==
    LET w == InsertWalk(root, <<>>, SelectSeq(routeDef.path, NonEmpty))
    IN  [w.root EXCEPT ![w.node].route = routeDef]

\* the loop of ApiRouter.resolve
RECURSIVE ResolveWalkDynamicFirst(_, _, _, _)
ResolveWalkDynamicFirst(root, node, segments, params) ==
    IF segments = <<>> THEN [found |-> TRUE, node |-> node, params |-> params]
    ELSE LET segment == Head(segments)
         IN  IF HasParamChild(root, node)
             THEN LET child == Append(node, ParamEdge)
                  IN  ResolveWalkDynamicFirst(root, child, Tail(segments),
                                              (root[child].paramName :> segment) @@ params)
             ELSE IF HasChild(root, node, segment)
             THEN ResolveWalkDynamicFirst(root, Append(node, segment), Tail(segments), params)
             ELSE [found |-> FALSE, node |-> node, params |-> EmptyParams]

\* a walk that goes back to the dynamic child when the static branch fails
RECURSIVE ResolveWalkBacktracking(_, _, _, _)
ResolveWalkBacktracking(root, node, segments, params) ==
    IF segments = <<>> THEN [found |-> TRUE, node |-> node, params |-> params]
    ELSE LET segment == Head(segments)
             missed == [found |-> FALSE, node |-> node, params |-> EmptyParams]
             static == IF HasChild(root, node, segment)
                       THEN ResolveWalkBacktracking(root, Append(node, segment),
                                                    Tail(segments), params)
                       ELSE missed
         IN  IF static.found THEN static
             ELSE IF HasParamChild(root, node)
             THEN LET child == Append(node, ParamEdge)
                  IN  ResolveWalkBacktracking(root, child, Tail(segments),
                                              (root[child].paramName :> segment) @@ params)
             ELSE missed

RECURSIVE ResolveWalk(_, _, _, _)
ResolveWalk(root, node, segments, params) ==
    IF segments = <<>> THEN [found |-> TRUE, node |-> node, params |-> params]
    ELSE LET segment == Head(segments)
         IN  IF HasChild(root, node, segment)
             THEN ResolveWalk(root, Append(node, segment), Tail(segments), params)
             ELSE IF HasParamChild(root, node)
             THEN LET child == Append(node, ParamEdge)
                  IN  ResolveWalk(root, child, Tail(segments),
                                  (root[child].paramName :> segment) @@ params)
             ELSE [found |-> FALSE, node |-> node, params |-> EmptyParams]

\* a resolve that looks nodes up the way insertRoute does, making the missing ones
TrieAfterResolveCreating(root, pieces) ==
    InsertWalk(root, <<>>, SelectSeq(NormalizePath(pieces), NonEmpty)).root

\* the trie after ApiRouter.resolve: the walk reads children, paramChild,
\* paramName and route, and writes only to its own params object
TrieAfterResolve(root, pieces) == root

\* ApiRouter.resolve
Resolve(root, requestMethod, pieces) ==
    LET reqPath == NormalizePath(pieces)
        method == ToUpperCase(requestMethod)
        w == ResolveWalk(root, <<>>, Segments(reqPath), EmptyParams)
    IN  IF w.found /\ root[w.node].route # NoRoute /\ method \in root[w.node].route.handlers
        THEN [route |-> root[w.node].route, params |-> w.params]
        ELSE [route |-> NoRoute, params |-> EmptyParams]

(***************************************************************************)
(* Responses.                                                              *)
(***************************************************************************)
Response(status, body, errors, by) ==
    [status |-> status, body |-> body, errors |-> errors, by |-> by]

NoResponse == Response(0, "", <<>>, "")
RouteNotFound == Response(404, "Route not found", <<>>, "api")
MethodNotAllowed == Response(405, "Method Not Allowed", <<>>, "api")
SwaggerPage == Response(200, "swaggerHtml", <<>>, "api")
OpenAPIDocument == Response(200, "openapi", <<>>, "api")
\* utils/error errorResponse: status 500 in every form
ErrorResponse == Response(500, "Internal Server Error", <<>>, "errorResponse")
\* the response a guard or middleware sends itself instead of calling next()
OwnResponse(name) == Response(403, "blocked", <<>>, name)
\* the response of the route handler
HandlerResponse == Response(200, "ok", <<>>, "handler")
\* routeChain after _handleSSE: new Response(null, { status: 200 })
SSEResponse == Response(200, "", <<>>, "sse")

(***************************************************************************)
(* utils/errorResponse.  A thrown value is an Error with message and       *)
(* stack, a value that is no Error (a string), or null.  A stack is given  *)
(* like a path, by the pieces between its slashes.  The Accept header is   *)
(* given by the media ranges it lists.                                     *)
(***************************************************************************)
NoStack == <<"<undefined>">>
ErrorOf(name, message, stack) ==
    [kind |-> "Error", name |-> name, message |-> message, stack |-> stack]
ThrownString == [kind |-> "string", name |-> "", message |-> "<undefined>", stack |-> NoStack]
ThrownNull == [kind |-> "null", name |-> "", message |-> "", stack |-> NoStack]
\* reading error.stack of null
TypeErrorOfNull ==
    ErrorOf("TypeError", "null is not an object", <<"TypeError: null is not an object at ", "errorResponse.ts">>)

\* the body and Content-Type of a response of errorResponse
ErrorBody(form, text, request, tag, error, stack) ==
    [form |-> form, text |-> text, request |-> request, tag |-> tag, error |-> error,
     stack |-> stack]
PlainBody == ErrorBody("text", "Internal Server Error", "", "", "", <<>>)
ErrorAnswer(threw, contentType, body) ==
    [threw |-> threw, status |-> IF threw THEN 0 ELSE 500, contentType |-> contentType,
     body |-> body]
\* the call did not return: it threw
ErrorResponseThrew == ErrorAnswer(TRUE, "", ErrorBody("", "", "", "", "", <<>>))

\* `${method} ${url}`
RequestLine(request) == <<request.method>> \o request.url

\* acceptHeader.includes('text/html')
AcceptsHtml(request) == "text/html" \in Range(request.accept)

\* lines 33-50: the HTML page; error.stack and error.message of null throw
HtmlErrorPage(error, request) ==
    IF error.kind = "null" THEN ErrorResponseThrew
    ELSE ErrorAnswer(FALSE, "text/html",
             ErrorBody("html", "", RequestLine(request),
                       IF error.stack = NoStack THEN "<undefined>" ELSE error.name,
                       error.message,
                       IF error.stack = NoStack THEN <<"No stack trace available">>
                       ELSE error.stack))

\* lines 51-66: JSON.stringify({ request, error, stack })
JsonError(error, request) ==
    ErrorAnswer(FALSE, "application/json",
        ErrorBody("json", "", RequestLine(request), "",
                  IF error.kind = "Error" THEN error.message ELSE "Unknown error",
                  IF error.kind = "Error"
                  THEN NormalizePath(IF error.stack = NoStack THEN <<"">> ELSE error.stack)
                  ELSE <<"">>))

\* errorResponse whose plain text answer shows the message of the error
errorResponseWithMessage(error, request, debug) ==
    IF AcceptsHtml(request) /\ debug THEN HtmlErrorPage(error, request)
    ELSE IF debug THEN JsonError(error, request)
    ELSE ErrorAnswer(FALSE, "text/plain",
                     ErrorBody("text", "Internal Server Error", "", "", error.message, <<>>))

\* errorResponse, lines 19-72
errorResponse(error, request, debug) ==
    IF AcceptsHtml(request) /\ debug THEN HtmlErrorPage(error, request)
    ELSE IF debug THEN JsonError(error, request)
    ELSE ErrorAnswer(FALSE, "text/plain", PlainBody)

\* the catch of _createApiHandler, and around it the catch of the fetch
\* handler of Server, which answers what errorResponse itself throws
TopLevelBoundary(error, request, debug) ==
    LET inner == errorResponse(error, request, debug)
    IN  IF inner.threw THEN errorResponse(TypeErrorOfNull, request, debug) ELSE inner

(***************************************************************************)
(* middleware/validator: createValidationMiddleware.                       *)
(*                                                                         *)
(* A method schema says which of params, query and body have a validator.  *)
(* The input of one run is the outcome of each safeParse and the state of  *)
(* the body: "ok", "invalid" (safeParse fails), "notjson" (Content-Type is *)
(* not application/json), "unparsable" (req.json() throws), "throws" (the   *)
(* validator itself throws out of safeParse).                              *)
(***************************************************************************)
NoSchema == [present |-> FALSE, methods |-> EmptyParams]
SchemaOf(methods) == [present |-> TRUE, methods |-> methods]
MethodSchema(p, q, b) == [params |-> p, query |-> q, body |-> b]

ValidatorInputs == [params : {"ok", "invalid"}, query : {"ok", "invalid"},
                    body : {"ok", "invalid", "notjson", "unparsable"}]

FieldError(field, error) == [field |-> field, error |-> error]

\* the catch blocks of the params and query sections push e.errors, the one
\* of the body section e.errors || e.message
SectionErrorDetail(outcome) ==
    IF outcome = "throws" THEN "e.errors" ELSE "result.error"

BodyErrorDetail(outcome) ==
    CASE outcome = "notjson" -> "Invalid Content-Type. Expected 'application/json'."
      [] outcome = "unparsable" -> "e.message"
      [] outcome = "throws" -> "e.errors || e.message"
      [] OTHER -> "result.error"

\* the errors array after the three blocks, lines 62-119
ValidationErrorsFailFast(methodSchema, paramsSet, input) ==
    IF methodSchema.params /\ paramsSet /\ input.params # "ok"
    THEN <<FieldError("params", SectionErrorDetail(input.params))>>
    ELSE IF methodSchema.query /\ input.query # "ok"
    THEN <<FieldError("query", SectionErrorDetail(input.query))>>
    ELSE IF methodSchema.body /\ input.body # "ok"
    THEN <<FieldError("body", BodyErrorDetail(input.body))>>
    ELSE <<>>

ValidationErrors(methodSchema, paramsSet, input) ==
    LET paramsErrors == IF methodSchema.params /\ paramsSet /\ input.params # "ok"
                        THEN <<FieldError("params", SectionErrorDetail(input.params))>> ELSE <<>>
        queryErrors == IF methodSchema.query /\ input.query # "ok"
                       THEN <<FieldError("query", SectionErrorDetail(input.query))>> ELSE <<>>
        bodyErrors == IF methodSchema.body /\ input.body # "ok"
                      THEN <<FieldError("body", BodyErrorDetail(input.body))>> ELSE <<>>
    IN  paramsErrors \o queryErrors \o bodyErrors

\* the validated object, lines 60-119: the sections whose safeParse succeeded
ValidatedData(methodSchema, paramsSet, input) ==
    {f \in {"params", "query", "body"} :
        /\ methodSchema[f]
        /\ input[f] = "ok"
        /\ (f = "params" => paramsSet)}

\* what the validation middleware does: "next" (continue with the inner
\* chain) or "respond" (400), and what it leaves in req.validated
ValidationStepFailOpen(schema, req, input) ==
    LET method == ToLowerCase(req.method)
    IN  IF req.validated # {"<unset>"} \/ method \notin DOMAIN schema.methods
        THEN [do |-> "next", errors |-> <<>>, validated |-> req.validated, ran |-> FALSE]
        ELSE LET methodSchema == schema.methods[method]
             IN  [do |-> "next",
                  errors |-> ValidationErrors(methodSchema, req.paramsSet, input),
                  validated |-> ValidatedData(methodSchema, req.paramsSet, input),
                  ran |-> TRUE]

ValidationStep(schema, req, input) ==
    LET method == ToLowerCase(req.method)
    IN  IF req.validated # {"<unset>"}
        THEN [do |-> "next", errors |-> <<>>, validated |-> req.validated, ran |-> FALSE]
        ELSE IF method \notin DOMAIN schema.methods
        THEN [do |-> "next", errors |-> <<>>, validated |-> req.validated, ran |-> FALSE]
        ELSE LET methodSchema == schema.methods[method]
                 errors == ValidationErrors(methodSchema, req.paramsSet, input)
             IN  IF Len(errors) > 0
                 THEN [do |-> "respond", errors |-> errors,
                       validated |-> req.validated, ran |-> TRUE]
                 ELSE [do |-> "next", errors |-> errors,
                       validated |-> ValidatedData(methodSchema, req.paramsSet, input),
                       ran |-> TRUE]

\* line 123: res.status(400).json({ errors })
ValidationFailed(errors) == Response(400, "errors", errors, "validation")

\* lines 27, 38, 130: return await next()
ValidationReturnOwn(result) == Response(200, "validated", <<>>, "validation")

ValidationReturn(result) == result

(***************************************************************************)
(* BreezeAPI._createApiHandler: the chain of one request.  The closures    *)
(* nest linearly, so the chain is the sequence of its links, outermost     *)
(* first; "validation" and "handler" are the two links that are not        *)
(* middleware functions.                                                   *)
(***************************************************************************)
\* lines 433-443
SelectMethodMiddleware(route, requestMethod) ==
    LET methodKey == ToLowerCase(requestMethod)
    IN  IF methodKey \in DOMAIN route.config.methods
           /\ IsArray(route.config.methods[methodKey].middleware)
        THEN route.config.methods[methodKey].middleware.items
        ELSE IF IsArray(route.config.middleware)
        THEN route.config.middleware.items
        ELSE route.middleware

\* for (const mw of list.slice().reverse()) chain = () => mw(req, res, chain)
RECURSIVE WrapEach(_, _)
WrapEach(reversed, chain) ==
    IF reversed = <<>> THEN chain
    ELSE WrapEach(Tail(reversed), <<Head(reversed)>> \o chain)

WrapInGivenOrder(list, chain) == WrapEach(list, chain)

Wrap(list, chain) == WrapEach(Reverse(list), chain)

\* lines 409-419: the SSE handler of the route, for a GET request
SSE_EXPORTS == {"SSE", "sse"}
IsSSE(route, requestMethod) ==
    ToUpperCase(requestMethod) = "GET" /\ route.handlers \cap SSE_EXPORTS # {}

\* lines 406-419: handler = route.handlers[method], or the SSE handler
HasHandler(route, requestMethod) ==
    \/ ToUpperCase(requestMethod) \in route.handlers
    \/ IsSSE(route, requestMethod)

\* lines 445-481; routeChain calls _handleSSE when isSSE, the handler otherwise
ComposeChain(route, requestMethod, globalMiddleware) ==
    LET methodMiddleware == SelectMethodMiddleware(route, requestMethod)
        innermost == IF IsSSE(route, requestMethod) THEN "sse" ELSE "handler"
        routeChain == Wrap(methodMiddleware, <<innermost>>)
        composedChain == IF route.schema.present
                         THEN <<"validation">> \o routeChain
                         ELSE routeChain
    IN  Wrap(globalMiddleware, composedChain)

(***************************************************************************)
(* utils/routing getRouteSpecificity and compareRoutes, and core            *)
(* PageRouter.  A page path is given like a pathname, by its pieces:       *)
(* "/pages/a/b/" is <<"pages", "a", "b", "">>.  A page file is given by    *)
(* the segments of its path relative to the pages directory, the file name *)
(* last.                                                                   *)
(***************************************************************************)
\* ROUTE_CONSTANTS.PAGE_INDEX_FILES
PAGE_INDEX_FILES == {"index.tsx", "index.html"}

\* new PageRouter(options.pageDir, 'pages')
PagePrefix == "pages"

\* lastSegment.substring(0, lastSegment.lastIndexOf('.'))
WithoutExtension(name) ==
    CASE name = "b.tsx" -> "b"
      [] name = "a.html" -> "a"
      [] OTHER -> name

\* PageRouter.convertFilePathToRoute: every segment of the relative path,
\* the file name included, then the prefix
RECURSIVE PageResultSegments(_)
PageResultSegments(segments) ==
    IF segments = <<>> THEN <<>>
    ELSE LET segment == Head(segments)
             rest == PageResultSegments(Tail(segments))
         IN  IF segment = "" THEN rest
             ELSE IF segment \in GroupingFolders THEN rest
             ELSE IF segment \in DynamicFolders THEN <<DynamicSegmentOf(segment)>> \o rest
             ELSE <<segment>> \o rest

PageConvertFilePathToRoute(filePath) == <<PagePrefix>> \o PageResultSegments(filePath)

\* PageRouter.cleanRoutePath
CleanRoutePath(routePath) ==
    LET lastSegment == routePath[Len(routePath)]
    IN  IF lastSegment \in PAGE_INDEX_FILES
        THEN SubSeq(routePath, 1, Len(routePath) - 1)
        ELSE [routePath EXCEPT ![Len(routePath)] = WithoutExtension(lastSegment)]

\* the two page definitions scanDirectory pushes for one page file; the
\* handler (the module's default export) is known by its file
PageDefinitionsOf(file) ==
    LET cleanedRoutePath == CleanRoutePath(PageConvertFilePathToRoute(file))
    IN  <<[path |-> Append(cleanedRoutePath, ""), handler |-> file],
          [path |-> cleanedRoutePath, handler |-> file]>>

\* PageRouter.scanDirectory over the page files in the order of the scan;
\* failing are the files whose import throws or whose .tsx module has no
\* default function: the error is logged and the scan goes on
RECURSIVE ScanDirectory(_, _)
ScanDirectory(order, failing) ==
    IF order = <<>> THEN <<>>
    ELSE (IF Head(order) \in failing THEN <<>> ELSE PageDefinitionsOf(Head(order)))
         \o ScanDirectory(Tail(order), failing)

\* getRouteSpecificity: the number of segments that are not dynamic
RECURSIVE GetRouteSpecificity(_)
GetRouteSpecificity(path) ==
    IF path = <<>> THEN 0
    ELSE GetRouteSpecificity(Tail(path))
         + (IF Head(path) = "" \/ IsDynamic(Head(path)) THEN 0 ELSE 1)

\* the collation order of the segments of the model: punctuation, digits,
\* letters; no segment is the beginning of another
CollationOrder == <<"", ":id", ":name", "7", "a", "b", "pages">>
CollationRank(segment) == CHOOSE k \in 1..Len(CollationOrder) : CollationOrder[k] = segment

\* String.prototype.localeCompare on two paths
RECURSIVE LocaleCompare(_, _)
LocaleCompare(a, b) ==
    IF a = <<>> /\ b = <<>> THEN 0
    ELSE IF a = <<>> THEN -1
    ELSE IF b = <<>> THEN 1
    ELSE IF Head(a) = Head(b) THEN LocaleCompare(Tail(a), Tail(b))
    ELSE IF CollationRank(Head(a)) < CollationRank(Head(b)) THEN -1
    ELSE 1

\* compareRoutes
CompareRoutesAlphabetical(a, b) == LocaleCompare(a.path, b.path)

CompareRoutes(a, b) ==
    LET aSpecificity == GetRouteSpecificity(a.path)
        bSpecificity == GetRouteSpecificity(b.path)
    IN  IF aSpecificity > bSpecificity THEN -1
        ELSE IF aSpecificity < bSpecificity THEN 1
        ELSE LocaleCompare(a.path, b.path)

\* Array.prototype.sort with compareRoutes: the sort is stable, so the
\* result is the one of an insertion behind the elements that are not after
RECURSIVE InsertSorted(_, _)
InsertSorted(sorted, x) ==
    IF sorted = <<>> THEN <<x>>
    ELSE IF CompareRoutes(Head(sorted), x) <= 0
    THEN <<Head(sorted)>> \o InsertSorted(Tail(sorted), x)
    ELSE <<x>> \o sorted

RECURSIVE SortPages(_)
SortPages(list) ==
    IF list = <<>> THEN <<>>
    ELSE InsertSorted(SortPages(SubSeq(list, 1, Len(list) - 1)), list[Len(list)])

\* PageRouter.matchRoute: the parameters, or null
NoMatch == [matched |-> FALSE, params |-> EmptyParams]

RECURSIVE MatchSegments(_, _, _)
MatchSegments(reqSegments, pageSegments, params) ==
    IF reqSegments = <<>> THEN [matched |-> TRUE, params |-> params]
    ELSE LET pSegment == Head(pageSegments)
             reqSegment == Head(reqSegments)
         IN  IF IsDynamic(pSegment)
             THEN MatchSegments(Tail(reqSegments), Tail(pageSegments),
                                (ParamNameOf(pSegment) :> reqSegment) @@ params)
             ELSE IF pSegment # reqSegment THEN NoMatch
             ELSE MatchSegments(Tail(reqSegments), Tail(pageSegments), params)

MatchRoute(requestPath, pagePath) ==
    LET reqSegments == Segments(requestPath)
        pageSegments == Segments(pagePath)
    IN  IF Len(reqSegments) # Len(pageSegments) THEN NoMatch
        ELSE MatchSegments(reqSegments, pageSegments, EmptyParams)

\* PageRouter.resolve: the first page of this.pages that matches
NoPage == [absent |-> TRUE]

RECURSIVE FirstMatch(_, _)
FirstMatch(pageList, reqPath) ==
    IF pageList = <<>> THEN [page |-> NoPage, params |-> EmptyParams]
    ELSE LET match == MatchRoute(reqPath, Head(pageList).path)
         IN  IF match.matched THEN [page |-> Head(pageList), params |-> match.params]
             ELSE FirstMatch(Tail(pageList), reqPath)

PageResolve(pageList, pieces) == FirstMatch(pageList, NormalizePath(pieces))

(***************************************************************************)
(* core/ws-router: WebSocketRouter.  A route path and a pathname are given *)
(* by their pieces; split('/') puts the same empty string in front of      *)
(* both.  A connection (the ws object) is known by its number.             *)
(***************************************************************************)
\* new WebSocketRouter(options.socketDir, 'socket')
SocketPrefix == "socket"

NoWsRoute == [absent |-> TRUE]
NoId == "<undefined>"

\* WebSocketRouter.scanDirectory and loadRouteModule: the route path of a
\* socket.ts file from its directories; [param] becomes :param
SocketRoutePath(dirs) ==
    <<SocketPrefix>> \o [i \in 1..Len(dirs) |->
                            IF dirs[i] \in DynamicFolders THEN DynamicSegmentOf(dirs[i])
                            ELSE dirs[i]]

\* WebSocketRouter.loadRouteModule: a module without any handler adds
\* nothing (console.warn), and neither does one whose import throws
\* (console.error in the catch)
SocketModuleSkipped(module, failing) == module \in failing \/ module.handlers = {}

RECURSIVE LoadSocketModules(_, _)
LoadSocketModules(order, failing) ==
    IF order = <<>> THEN <<>>
    ELSE LET module == Head(order)
             rest == LoadSocketModules(Tail(order), failing)
         IN  IF SocketModuleSkipped(module, failing) THEN rest
             ELSE <<[path |-> SocketRoutePath(module.dirs), handler |-> module.handlers,
                     file |-> module.dirs]>>
                  \o rest

\* route.path.includes('/:')
HasDynamicPart(path) == \E i \in 1..Len(path) : IsDynamic(path[i])

\* the loop over the parts, lines 504-512: the match, and the last value
\* captured for a parameter segment
WsPartsMatch(routeParts, pathParts) ==
    \A i \in 1..Len(routeParts) : IsDynamic(routeParts[i]) \/ routeParts[i] = pathParts[i]

WsDynamicId(routeParts, pathParts) ==
    LET dynamic == {i \in 1..Len(routeParts) : IsDynamic(routeParts[i])}
    IN  pathParts[CHOOSE i \in dynamic : \A j \in dynamic : j <= i]

\* this.routes.find(route => route.path === cleanPath)
RECURSIVE WsExactRoute(_, _)
WsExactRoute(routes, cleanPath) ==
    IF routes = <<>> THEN NoWsRoute
    ELSE IF Head(routes).path = cleanPath THEN Head(routes)
    ELSE WsExactRoute(Tail(routes), cleanPath)

RECURSIVE WsDynamicRoute(_, _)
WsDynamicRoute(routes, cleanPath) ==
    IF routes = <<>> THEN [route |-> NoWsRoute, id |-> NoId]
    ELSE LET route == Head(routes)
         IN  IF /\ HasDynamicPart(route.path)
                /\ Len(route.path) = Len(cleanPath)
                /\ WsPartsMatch(route.path, cleanPath)
             THEN [route |-> route, id |-> WsDynamicId(route.path, cleanPath)]
             ELSE WsDynamicRoute(Tail(routes), cleanPath)

\* WebSocketRouter.matchRoute
WsMatchRoute(routes, path) ==
    LET exactRoute == WsExactRoute(routes, path)
    IN  IF exactRoute # NoWsRoute THEN [route |-> exactRoute, id |-> NoId]
        ELSE WsDynamicRoute(routes, path)

\* WebSocketRouter.socketGroups: a map from the group path to its set of
\* connections
NoGroups == [g \in {} |-> {}]

\* an addToGroup that stores a new set under the path each time
AddToGroupAlone(groups, path, ws) ==
    IF path \in DOMAIN groups THEN [groups EXCEPT ![path] = {ws}]
    ELSE (path :> {ws}) @@ groups

\* WebSocketRouter.addToGroup
AddToGroup(groups, path, ws) ==
    IF path \in DOMAIN groups THEN [groups EXCEPT ![path] = @ \cup {ws}]
    ELSE (path :> {ws}) @@ groups

\* a removeFromGroup that deletes the entry of the path whoever is removed
RemoveFromGroupWholeEntry(groups, path, ws) ==
    IF path \in DOMAIN groups
    THEN [g \in DOMAIN groups \ {path} |-> groups[g]]
    ELSE groups

\* WebSocketRouter.removeFromGroup
RemoveFromGroupKeepEmpty(groups, path, ws) ==
    IF path \in DOMAIN groups THEN [groups EXCEPT ![path] = @ \ {ws}]
    ELSE groups

RemoveFromGroup(groups, path, ws) ==
    IF path \in DOMAIN groups
    THEN LET deleted == [groups EXCEPT ![path] = @ \ {ws}]
         IN  IF deleted[path] = {}
             THEN [g \in DOMAIN groups \ {path} |-> groups[g]]
             ELSE deleted
    ELSE groups

\* WebSocketRouter.getGroupSockets
GetGroupSockets(groups, path) == IF path \in DOMAIN groups THEN groups[path] ELSE {}

\* WebSocketRouter.broadcast: the sockets the message is sent to
BroadcastRecipientsEveryGroup(groups, path) == UNION {groups[g] : g \in DOMAIN groups}

BroadcastRecipients(groups, path) == GetGroupSockets(groups, path)

\* Server.startSocket, line 293: groupPath of an upgraded connection is url.pathname
GroupPathOf(pathname, route, id) == pathname

\* the try / catch around a lifecycle handler, lines 366-370, 379-383,
\* 402-406, 412-416: does the error of the handler leave the callback
HandlerErrorUncaught(threw) == threw

HandlerErrorEscapes(threw) == FALSE

\* a callback that runs the handler of the route first and calls
\* addToGroup / removeFromGroup after it
GroupsAtHandlerBeforeGroupCall(before, after) == before

\* the order of the open and close callbacks, lines 349-370 and 386-406:
\* addToGroup / removeFromGroup is called first, the handler of the route
\* runs with the groups the call left
GroupsAtHandler(before, after) == after

(***************************************************************************)
(* CORS headers.  The value of a header that lists names is given by the   *)
(* names it lists, in order.                                               *)
(***************************************************************************)
StringOf(items) == [shape |-> "string", items |-> items]

NoHeader == [set |-> FALSE, names |-> <<>>]
HeaderOf(names) == [set |-> TRUE, names |-> names]

\* options.cors: undefined, or an object that may set allowedHeaders
NoCors == [present |-> FALSE, allowedHeaders |-> Absent]
CorsOf(allowedHeaders) == [present |-> TRUE, allowedHeaders |-> allowedHeaders]

\* BreezeAPI constructor: the defaults, overridden by the keys of options.cors
DefaultAllowedHeaders == StringOf(<<"Content-Type", "Authorization">>)
CorsOptions(cors) ==
    IF cors.present /\ Truthy(cors.allowedHeaders) THEN cors.allowedHeaders
    ELSE DefaultAllowedHeaders

\* Array.from(new Set(list)): the first occurrence of each name stays
RECURSIVE Deduplicated(_)
Deduplicated(list) ==
    IF list = <<>> THEN <<>>
    ELSE LET before == Deduplicated(SubSeq(list, 1, Len(list) - 1))
             last == list[Len(list)]
         IN  IF last \in Range(before) THEN before ELSE Append(before, last)

\* getCORSHeaders: the Access-Control-Allow-Headers value
GetCORSHeaders(allowedHeaders, alwaysAllowedHeaders) ==
    HeaderOf(Deduplicated(SelectSeq(allowedHeaders.items \o alwaysAllowedHeaders, NonEmpty)))

\* Server.addCorsHeaders: Access-Control-Allow-Headers of the new response;
\* an array is truthy also when it is empty, a string only when not empty
AddCorsHeaders(cors, header) ==
    IF ~cors.present THEN header
    ELSE IF cors.allowedHeaders.shape = "array"
            \/ (cors.allowedHeaders.shape = "string" /\ cors.allowedHeaders.items # <<>>)
    THEN HeaderOf(cors.allowedHeaders.items)
    ELSE header

(***************************************************************************)
(* State.                                                                  *)
(***************************************************************************)
VARIABLES
    phase,              \* "load" until serve() starts the server, then "serve"
    root,               \* ApiRouter.root
    files,              \* history: the route.ts files loaded (the modules)
    inserted,           \* history: the route definitions inserted, in order
    globalMiddleware,   \* BreezeAPI.globalMiddleware
    registrations,      \* history: the global middleware registered, in order
    pc,                 \* the request in hand: "idle", "run", "unwind", "done"
    req,                \* apiRequest: method, pathname, params, validated
    resolved,           \* the result of apiRouter.resolve for the request
    chain,              \* finalHandler: the links of the request, outermost first
    pos,                \* the link to invoke next
    stack,              \* the links (places in chain) that await the result of next()
    nextCalled,         \* history: the links (places in chain) that called next()
    log,                \* history: the links invoked, in order
    received,           \* history: what next() returned to each link (place in chain)
    stopper,            \* history: the link that responded without next()
    vinput,             \* history: the input of the validators that ran
    errors,             \* history: the errors array of the validation
    result,             \* the response travelling back through the chain
    response,           \* the response of the request
    pages,              \* PageRouter.pages
    scanned,            \* history: the page files in the order of the scan
    pageReq,            \* the pathname given to PageRouter.resolve
    pageResolved,       \* the result of PageRouter.resolve
    options,            \* the ServerOptions given to the constructor
    entry,              \* history: the branch of the fetch handler the request took
    wire,               \* what the fetch handler gave back to Bun: response or upgrade
    wsRoutes,           \* WebSocketRouter.routes
    wsLoaded,           \* history: WebSocketRouter.loadRoutes has run
    socketGroups,       \* WebSocketRouter.socketGroups
    conns,              \* the WebSocket connections: state, pathname of the upgrade, ws.data
    wsEvent,            \* history: the last websocket callback (or direct group call)
    lastBroadcast,      \* history: the last broadcast since the groups changed
    skipped,            \* history: the module files a loader logged and left out
    boundary,           \* history: the last error caught at the top level, and the answer
    sse,                \* the stream of one _handleSSE call: closure, connection, pump
    cron                \* one cron job: its config, the clock, lastExecutions, executions

serverVars == <<phase, root, files, inserted, globalMiddleware, registrations>>
requestVars == <<pc, req, resolved, chain, pos, stack, nextCalled, log, received, stopper,
                 vinput, errors, result, response>>
apiVars == <<serverVars, requestVars>>
pageVars == <<pages, scanned, pageReq, pageResolved>>
socketVars == <<wsRoutes, wsLoaded, socketGroups, conns, wsEvent, lastBroadcast>>
entryVars == <<options, entry, wire>>
\* what the loaders and the error boundary record
sideVars == <<skipped, boundary, sse, cron>>
\* what the API router and the request pipeline leave alone
outsideApiVars == <<pageVars, socketVars, entryVars, sideVars>>
vars == <<phase, root, files, inserted, globalMiddleware, registrations,
          pc, req, resolved, chain, pos, stack, nextCalled, log, received, stopper,
          vinput, errors, result, response, pages, scanned, pageReq, pageResolved,
          options, entry, wire, wsRoutes, wsLoaded, socketGroups, conns, wsEvent,
          lastBroadcast, skipped, boundary, sse, cron>>

Unset == {"<unset>"}
NoRequest == [method |-> "", pieces |-> <<>>, upgrade |-> FALSE, params |-> EmptyParams,
              paramsSet |-> FALSE, validated |-> Unset]
NotResolved == [route |-> NoRoute, params |-> EmptyParams, called |-> FALSE]
NoInput == [params |-> "", query |-> "", body |-> ""]

(***************************************************************************)
(* The names of the middleware functions of the model, by where a route    *)
(* module or the application registers them.                               *)
(***************************************************************************)
GuardNames == {"G1", "G2"}
LegacyNames == {"L1"}
ConfigNames == {"C1"}
MethodNames == {"M1"}
GlobalNames == {"U1", "U2"}
RouteLinkNames == GuardNames \cup LegacyNames \cup ConfigNames \cup MethodNames

NoConfig == [middleware |-> Absent, guards |-> Absent, methods |-> EmptyParams]

\* route.ts files that export handlers only, at several places of the tree
RouterDirs == {<<>>, <<"users">>, <<"(g)", "users">>, <<"users", "[id]">>,
               <<"users", "me">>, <<"(g)", "users", "[name]">>}
RouterModules ==
    [dirs : RouterDirs, exports : {{"GET"}, {"POST"}}, middleware : {Absent},
     config : {NoConfig}, schema : {NoSchema}]

\* one route.ts file, users/[id]/route.ts, with every form of middleware,
\* guards and schema
PipelineConfigs ==
    [middleware : {Absent, ArrayOf(<<"C1">>), MappingOf(<<"C1">>)},
     guards : {Absent, ArrayOf(<<"G1", "G2">>)},
     methods : {EmptyParams, [k \in {"get"} |-> [middleware |-> ArrayOf(<<"M1">>)]]}]
PipelineSchemas ==
    {NoSchema,
     SchemaOf([k \in {"get"} |-> MethodSchema(TRUE, TRUE, FALSE)]),
     SchemaOf([k \in {"get"} |-> MethodSchema(FALSE, TRUE, TRUE)]),
     SchemaOf([k \in {"post"} |-> MethodSchema(TRUE, TRUE, TRUE)])}
PipelineModules ==
    [dirs : {<<"users", "[id]">>}, exports : {{"GET"}, {"GET", "POST"}},
     middleware : {Absent, ArrayOf(<<"L1">>)},
     config : PipelineConfigs, schema : PipelineSchemas]

\* page files of the pages directory; a directory holds one dynamic folder
PageFiles == {<<"a", "b.tsx">>, <<"a", "[id]", "index.tsx">>, <<"[name]", "b.tsx">>,
              <<"[name]", "[id]", "index.tsx">>, <<"(g)", "a", "b", "index.tsx">>,
              <<"a", "index.tsx">>, <<"a.html">>}
\* the orders in which a scan finds up to MaxPages of them
ScanOrders ==
    {order \in SeqsUpTo(PageFiles, MaxPages) :
        \A i, j \in 1..Len(order) : i # j => order[i] # order[j]}
PageRequests ==
    {<<PagePrefix>> \o rest : rest \in SeqsUpTo({"a", "b", "7", ""}, MaxPieces)}
PageNotResolved == [page |-> NoPage, params |-> EmptyParams, called |-> FALSE]

\* the options of the model: which directories are declared, favicon,
\* config.session, cors and alwaysAllowedHeaders
OptionsOf(apiDir, socketDir, favicon, session, cors, alwaysAllowedHeaders) ==
    [apiDir |-> apiDir, socketDir |-> socketDir, favicon |-> favicon, session |-> session,
     cors |-> cors, alwaysAllowedHeaders |-> alwaysAllowedHeaders]
\* options.alwaysAllowedHeaders ?? ['api-key']
DefaultAlwaysAllowedHeaders == <<"api-key">>
\* an API directory and nothing else
PlainOptions == OptionsOf(TRUE, FALSE, FALSE, FALSE, NoCors, DefaultAlwaysAllowedHeaders)
\* an API directory and a socket directory
SocketOptions == OptionsOf(TRUE, TRUE, FALSE, FALSE, NoCors, DefaultAlwaysAllowedHeaders)

Sockets == 1..MaxSockets
NoData == [absent |-> TRUE]
DataOf(id, groupPath) == [id |-> id, groupPath |-> groupPath]
NoConn == [state |-> "none", pathname |-> <<>>, data |-> NoData]
NoEvent == [kind |-> "", conn |-> 0, path |-> <<>>, called |-> FALSE, threw |-> FALSE,
            escaped |-> FALSE, before |-> NoGroups, inside |-> {}]
NoBroadcast == [sent |-> FALSE, path |-> <<>>, message |-> "", to |-> {}]
NoWire == [kind |-> "none", status |-> 0, body |-> "", allowHeaders |-> NoHeader, conn |-> 0]

\* socket.ts files: chat/[id]/socket.ts and chat/socket.ts, with all four
\* handlers, with onMessage alone, or with none
WsHandlerNames == {"open", "message", "close", "drain"}
SocketModules ==
    [dirs : {<<"chat", "[id]">>, <<"chat">>}, handlers : {WsHandlerNames, {"message"}, {}}]
SocketScanOrders ==
    {order \in SeqsUpTo(SocketModules, 2) :
        \A i, j \in 1..Len(order) : i # j => order[i].dirs # order[j].dirs}
SocketPaths == {<<"socket", "chat", "room1">>, <<"socket", "chat", "room2">>,
                <<"socket", "chat">>, <<"socket", "lobby">>}
SocketRequests == [method : {"GET"}, pieces : SocketPaths, upgrade : {TRUE}]
Messages == {"hello"}

RequestMethods == {"GET", "POST"}
Pieces == {"users", "me", "7", "docs", ""}
RouterRequests ==
    [method : RequestMethods, pieces : SeqsUpTo(Pieces, MaxPieces) \ {<<>>},
     upgrade : {FALSE}]
PipelineRequests ==
    [method : RequestMethods, pieces : {<<"users", "7">>, <<"users">>}, upgrade : {FALSE}]

\* route.ts files below dynamic folders, in one directory and in the
\* directories a grouping folder sets side by side
ScanDirs == {<<"users", "[id]">>, <<"users", "[name]">>, <<"(g)", "users", "[name]">>,
             <<"users", "[id]", "me">>, <<"(g)", "users", "[name]", "me">>, <<"users">>}
ScanModules ==
    [dirs : ScanDirs, exports : {{"GET"}}, middleware : {Absent},
     config : {NoConfig}, schema : {NoSchema}]
ScanRequests ==
    [method : {"GET"}, pieces : {<<"users", "7">>, <<"users", "7", "me">>, <<"users">>},
     upgrade : {FALSE}]

\* one route.ts file, users/[id]/route.ts, whose config registers guards and
\* middleware with options, as an array and as a named mapping
OptionsConfigs ==
    [middleware : {Absent, ArrayOf(<<"{C1,ttl}">>), MappingOf(<<"{C1,ttl}">>),
                   MappingOf(<<"{C1}">>)},
     guards : {Absent, ArrayOf(<<"G1", "{G2,admin}">>), MappingOf(<<"G1", "{G2,admin}">>)},
     methods : {EmptyParams}]
OptionsModules ==
    [dirs : {<<"users", "[id]">>}, exports : {{"GET"}}, middleware : {Absent},
     config : OptionsConfigs, schema : {NoSchema}]
OptionsRequests == [method : {"GET"}, pieces : {<<"users", "7">>}, upgrade : {FALSE}]

\* one route.ts file, events/route.ts, that exports an SSE handler, a GET
\* handler, or both, with and without a legacy middleware
SSEModules ==
    [dirs : {<<"events">>},
     exports : {{"SSE"}, {"sse"}, {"GET", "SSE"}, {"POST", "SSE"}, {"GET"}},
     middleware : {Absent, ArrayOf(<<"L1">>)},
     config : {NoConfig}, schema : {NoSchema}]
SSERequests == [method : RequestMethods, pieces : {<<"events">>}, upgrade : {FALSE}]

\* errors thrown by a link, and the requests and debug flags of errorResponse
ThrownValues ==
    {ErrorOf("Error", "boom", <<"Error: boom at ", "app", "", "route.ts">>),
     ErrorOf("Error", "secret", <<"Error: secret at ", "db.ts", "">>),
     ErrorOf("TypeError", "boom", NoStack),
     ThrownString, ThrownNull}
AcceptHeaders == {<<>>, <<"text/html">>, <<"application/json">>,
                  <<"application/json", "text/html">>, <<"*/*">>}
ErrorRequests ==
    [method : {"GET", "POST"}, url : {<<"users", "7">>, <<"users">>}, accept : AcceptHeaders]
(***************************************************************************)
(* Cron jobs, registerCronJob.  Times are in milliseconds.                 *)
(***************************************************************************)
\* a timeBetween string: its digits and its last character
TimeBetween(value, unit) == [value |-> value, unit |-> unit]
Unsupported == -1
\* parseTimeBetween; Unsupported stands for the Error thrown for another unit
parseTimeBetween(time) ==
    CASE time.unit = "d" -> time.value * 24 * 60 * 60 * 1000
      [] time.unit = "h" -> time.value * 60 * 60 * 1000
      [] time.unit = "m" -> time.value * 60 * 1000
      [] time.unit = "s" -> time.value * 1000
      [] OTHER -> Unsupported
\* lastExecutions[jobName] of a job that never completed
NoDate == -1
\* shouldExecuteTimeBased at the time now; a throw of parseTimeBetween is
\* caught by onTick, and the job does not run
shouldExecuteTimeBased(lastExecution, timeBetween, now) ==
    IF lastExecution = NoDate THEN TRUE
    ELSE LET minTimeBetween == parseTimeBetween(timeBetween)
             timeDiff == now - lastExecution
         IN  minTimeBetween # Unsupported /\ timeDiff >= minTimeBetween
CronConfigs ==
    [enabled : BOOLEAN, useTime : BOOLEAN, runOnStart : BOOLEAN,
     timeBetween : {TimeBetween(2, "s"), TimeBetween(3, "s"), TimeBetween(1, "w")}]
NoCron ==
    [registered |-> FALSE,
     config |-> [enabled |-> FALSE, useTime |-> FALSE, runOnStart |-> FALSE,
                 timeBetween |-> TimeBetween(0, "s")],
     now |-> 0, ticked |-> FALSE, lastExecution |-> NoDate, running |-> 0, starts |-> <<>>]

(***************************************************************************)
(* The SSE execution path, BreezeAPI._handleSSE.                           *)
(***************************************************************************)
\* what a handler passes to send: a string, or a value JSON.stringify serialises
SSEData == {[type |-> "string", value |-> "tick"], [type |-> "object", value |-> "tick"]}
\* the event name of a send; "" is an omitted (or empty, falsy) name
SSEEvents == {"", "update"}
SSELine(field, text, json) == [field |-> field, text |-> text, json |-> json]
\* send, lines 529-531: `event: <name>\n` when event is truthy, then
\* `data: <data or JSON.stringify(data)>\n\n`
SSEPayload(data, event) ==
    (IF event # "" THEN <<SSELine("event", event, FALSE)>> ELSE <<>>)
    \o <<SSELine("data", data.value, data.type # "string"), SSELine("", "", FALSE)>>
\* pump, line 558: a string chunk as it is, a Uint8Array through TextDecoder
SSEChunks == {[type |-> "string", value |-> "a"], [type |-> "bytes", value |-> "b"]}
DecodeChunk(chunk) == <<SSELine("raw", chunk.value, FALSE)>>
\* res.send('', true)
EmptyPayload == <<>>
\* the connection of the response: what was written to it, whether it was ended
NoOutput == [written |-> <<>>, ended |-> FALSE]
\* res.send(payload, close).  res is `new HttpResponse() as any as apiResponse`
\* (part_001:268) and class HttpResponse defines no send method (only the
\* apiResponse declaration names one, types/index.ts:408): the call is a
\* TypeError, nothing is written and nothing is ended.
ResSend(out, payload, close) == [out |-> out, threw |-> TRUE]
\* typeof req.on === 'function', line 566: class HttpRequest defines no `on`
RequestHasOn == FALSE
\* the SSE handlers of the model: (req, res) or (req, res, send); a handler
\* with send may call it before it returns; a handler may return a
\* ReadableStream, whose read number `failing` (if any) rejects
ChunkSeqs == UNION {[1..n -> SSEChunks] : n \in 0..MaxChunks}
SSEHandlers ==
    [style : {"push"}, arity : {2, 3}, first : BOOLEAN, source : {<<>>}, failing : {0}]
    \cup {h \in [style : {"pull"}, arity : {2, 3}, first : BOOLEAN, source : ChunkSeqs,
                 failing : 0..(MaxChunks + 1)] : h.failing <= Len(h.source) + 1}
NoStream ==
    [style |-> "none", arity |-> 0, rejected |-> FALSE, closed |-> FALSE,
     listening |-> FALSE, gone |-> FALSE, out |-> NoOutput, calls |-> <<>>,
     source |-> <<>>, failing |-> 0, read |-> 0, pump |-> "none", thrown |-> 0]

NoBoundary ==
    [called |-> FALSE, error |-> ThrownNull,
     request |-> [method |-> "", url |-> <<>>, accept |-> <<>>], debug |-> FALSE,
     answer |-> ErrorResponseThrew]

\* the configurations of the server entrance: every combination of the
\* directories, favicon and config.session, without cors and with one, and
\* an API-only server with each cors and alwaysAllowedHeaders
CorsConfigs == {NoCors, CorsOf(Absent), CorsOf(ArrayOf(<<"X-Custom">>)),
                CorsOf(StringOf(<<"X-Custom", "api-key">>))}
AlwaysAllowedChoices == {DefaultAlwaysAllowedHeaders, <<"api-key", "X-Custom">>, <<>>}
ServerConfigs ==
    {OptionsOf(apiDir, socketDir, favicon, session, cors, DefaultAlwaysAllowedHeaders) :
        apiDir \in BOOLEAN, socketDir \in BOOLEAN, favicon \in BOOLEAN,
        session \in BOOLEAN, cors \in {NoCors, CorsOf(ArrayOf(<<"X-Custom">>))}}
    \cup {OptionsOf(TRUE, FALSE, FALSE, FALSE, cors, always) :
              cors \in CorsConfigs, always \in AlwaysAllowedChoices}
\* the one route.ts and the one socket.ts of that server
ServerModule == [dirs |-> <<"users", "[id]">>, exports |-> {"GET"}, middleware |-> Absent,
                 config |-> NoConfig, schema |-> NoSchema]
ServerSocketModule == [dirs |-> <<"chat", "[id]">>, handlers |-> WsHandlerNames]
\* a request with the Upgrade: websocket header is a GET
ServerRequests ==
    {request \in [method : {"GET", "POST", "OPTIONS"},
                  pieces : {<<"users", "7">>, <<"nowhere">>, <<"favicon.ico">>,
                            <<"socket", "chat", "room1">>, <<"socket", "lobby">>},
                  upgrade : BOOLEAN] :
        request.upgrade => request.method = "GET"}

(***************************************************************************)
(* Initial state: the application constructed, nothing loaded.             *)
(***************************************************************************)
InitWith(serverOptions) ==
    /\ phase = "load"
    /\ root = EmptyTrie
    /\ files = {}
    /\ inserted = <<>>
    /\ globalMiddleware = <<>>
    /\ registrations = <<>>
    /\ pc = "idle"
    /\ req = NoRequest
    /\ resolved = NotResolved
    /\ chain = <<>>
    /\ pos = 0
    /\ stack = <<>>
    /\ nextCalled = {}
    /\ log = <<>>
    /\ received = NoneReceived
    /\ stopper = ""
    /\ vinput = NoInput
    /\ errors = <<>>
    /\ result = NoResponse
    /\ response = NoResponse
    /\ pages = <<>>
    /\ scanned = <<>>
    /\ pageReq = <<>>
    /\ pageResolved = PageNotResolved
    /\ options = serverOptions
    /\ entry = ""
    /\ wire = NoWire
    /\ wsRoutes = <<>>
    /\ wsLoaded = FALSE
    /\ socketGroups = NoGroups
    /\ conns = [c \in Sockets |-> NoConn]
    /\ wsEvent = NoEvent
    /\ lastBroadcast = NoBroadcast
    /\ skipped = {}
    /\ boundary = NoBoundary
    /\ sse = NoStream
    /\ cron = NoCron

Init == InitWith(PlainOptions)

(***************************************************************************)
(* Start-up.                                                               *)
(***************************************************************************)
\* BreezeAPI.addGlobalMiddleware
AddGlobalMiddlewareInFront(list, mw) == <<mw>> \o list

AddGlobalMiddleware(list, mw) == Append(list, mw)

\* BreezeAPI.use, and the constructor's options.globalMiddleware.forEach;
\* before serve() or between two requests
Use(mw) ==
    /\ pc = "idle"
    /\ Len(globalMiddleware) < MaxGlobal
    /\ globalMiddleware' = AddGlobalMiddleware(globalMiddleware, mw)
    /\ registrations' = Append(registrations, mw)
    /\ UNCHANGED <<phase, root, files, inserted>>
    /\ UNCHANGED requestVars
    /\ UNCHANGED outsideApiVars

\* ApiRouter.loadRouteModule for one route.ts file found by the scan; a
\* directory holds one route.ts
LoadRoute(module) ==
    /\ phase = "load"
    /\ options.apiDir
    /\ \A loaded \in files : loaded.dirs # module.dirs
    /\ ~DynamicFolderConflict(files, module)
    /\ files' = files \cup {module}
    /\ LET routeDef == LoadRouteModule(module)
       IN  /\ root' = InsertRoute(root, routeDef)
           /\ inserted' = Append(inserted, routeDef)
    /\ UNCHANGED <<phase, globalMiddleware, registrations>>
    /\ UNCHANGED requestVars
    /\ UNCHANGED outsideApiVars

\* ApiRouter.scanDirectory throws 'Multiple dynamic route folders found in
\* the same directory'; loadRoutes and serve() reject, no server starts
ScanDirectoryThrows(module) ==
    /\ phase = "load"
    /\ options.apiDir
    /\ \A loaded \in files : loaded.dirs # module.dirs
    /\ DynamicFolderConflict(files, module)
    /\ phase' = "failed"
    /\ UNCHANGED <<root, files, inserted, globalMiddleware, registrations>>
    /\ UNCHANGED requestVars
    /\ UNCHANGED outsideApiVars

\* ApiRouter.loadRouteModule: the import (or anything after it) throws;
\* 'Failed to load route module' goes up through scanDirectory, loadRoutes
\* and serve(), no server starts
LoadRouteModuleThrows(module) ==
    /\ phase = "load"
    /\ options.apiDir
    /\ \A loaded \in files : loaded.dirs # module.dirs
    /\ ~DynamicFolderConflict(files, module)
    /\ phase' = "failed"
    /\ UNCHANGED <<root, files, inserted, globalMiddleware, registrations>>
    /\ UNCHANGED requestVars
    /\ UNCHANGED outsideApiVars

\* a link throws error while request is handled: the catch of
\* _createApiHandler (and of the fetch handler) answers it
CatchError(error, request, debug) ==
    /\ boundary' = [called |-> TRUE, error |-> error, request |-> request, debug |-> debug,
                    answer |-> TopLevelBoundary(error, request, debug)]
    /\ UNCHANGED <<skipped, sse, cron>>
    /\ UNCHANGED apiVars
    /\ UNCHANGED <<pageVars, socketVars, entryVars>>

\* BreezeAPI.serve: the routes are loaded, the server starts
Serve ==
    /\ phase = "load"
    /\ phase' = "serve"
    /\ UNCHANGED <<root, files, inserted, globalMiddleware, registrations>>
    /\ UNCHANGED requestVars
    /\ UNCHANGED outsideApiVars

(***************************************************************************)
(* One request, _createApiHandler lines 373-499.                           *)
(***************************************************************************)
\* lines 381-484: up to the composition of the chain
Dispatch(request) ==
       IF request.pieces = <<"openapi.json">>
       THEN /\ response' = OpenAPIDocument
            /\ pc' = "done"
            /\ req' = [NoRequest EXCEPT !.method = request.method,
                                        !.pieces = request.pieces,
                                        !.upgrade = request.upgrade]
            /\ UNCHANGED <<resolved, chain, pos, root>>
       ELSE IF request.pieces = <<"docs">>
       THEN /\ response' = SwaggerPage
            /\ pc' = "done"
            /\ req' = [NoRequest EXCEPT !.method = request.method,
                                        !.pieces = request.pieces,
                                        !.upgrade = request.upgrade]
            /\ UNCHANGED <<resolved, chain, pos, root>>
       ELSE LET r == Resolve(root, request.method, request.pieces)
                method == ToUpperCase(request.method)
            IN  /\ resolved' = [route |-> r.route, params |-> r.params, called |-> TRUE]
                /\ root' = TrieAfterResolve(root, request.pieces)
                /\ IF r.route = NoRoute
                   THEN /\ response' = RouteNotFound
                        /\ pc' = "done"
                        /\ req' = [NoRequest EXCEPT !.method = request.method,
                                                    !.pieces = request.pieces,
                                                    !.upgrade = request.upgrade]
                        /\ UNCHANGED <<chain, pos>>
                   ELSE /\ req' = [method |-> request.method, pieces |-> request.pieces,
                                   upgrade |-> request.upgrade,
                                   params |-> r.params, paramsSet |-> TRUE,
                                   validated |-> Unset]
                        /\ IF ~HasHandler(r.route, request.method)
                           THEN /\ response' = MethodNotAllowed
                                /\ pc' = "done"
                                /\ UNCHANGED <<chain, pos>>
                           ELSE /\ chain' = ComposeChain(r.route, request.method,
                                                         globalMiddleware)
                                /\ pos' = 1
                                /\ pc' = "run"
                                /\ UNCHANGED response

\* the handler of _createApiHandler called with a request
Receive(request) ==
    /\ phase = "serve"
    /\ pc = "idle"
    /\ Dispatch(request)
    /\ UNCHANGED <<stack, nextCalled, log, received, stopper, vinput, errors, result>>
    /\ UNCHANGED <<phase, files, inserted, globalMiddleware, registrations>>
    /\ UNCHANGED outsideApiVars

\* a link whose next is the chain variable itself: calling it invokes the
\* same link again
NextLinkItself(link) == link

\* const next = routeChain (finalHandler): next() of a link invokes the
\* chain composed before it, the following link
NextLink(link) == link + 1

\* a middleware function (global, guard or route middleware) is invoked and
\* calls next(), returns a response of its own, or throws
InvokeMiddleware(names, behaviour) ==
    /\ pc = "run"
    /\ chain[pos] \in names
    /\ log' = Append(log, chain[pos])
    /\ CASE behaviour = "next" ->
              /\ stack' = Append(stack, pos)
              /\ nextCalled' = nextCalled \cup {pos}
              /\ pos' = NextLink(pos)
              /\ UNCHANGED <<pc, req, stopper, result, response>>
         [] behaviour = "set validated" ->
              \* req.validated = {}; return next()
              /\ req' = [req EXCEPT !.validated = {}]
              /\ stack' = Append(stack, pos)
              /\ nextCalled' = nextCalled \cup {pos}
              /\ pos' = NextLink(pos)
              /\ UNCHANGED <<pc, stopper, result, response>>
         [] behaviour = "respond" ->
              /\ stopper' = chain[pos]
              /\ result' = OwnResponse(chain[pos])
              /\ pc' = "unwind"
              /\ UNCHANGED <<req, stack, nextCalled, pos, response>>
         [] behaviour = "throw" ->
              /\ response' = ErrorResponse
              /\ pc' = "done"
              /\ stack' = <<>>
              /\ UNCHANGED <<req, nextCalled, pos, stopper, result>>
    /\ UNCHANGED <<resolved, chain, received, vinput, errors>>
    /\ UNCHANGED serverVars
    /\ UNCHANGED outsideApiVars

Behaviours == {"next", "respond", "throw"}

InvokeGlobal == \E b \in Behaviours : InvokeMiddleware(GlobalNames, b)

InvokeRouteLink == \E b \in Behaviours : InvokeMiddleware(RouteLinkNames, b)

\* a global middleware that assigns req.validated and calls next()
InvokeGlobalSettingValidated == InvokeMiddleware(GlobalNames, "set validated")

\* a configured function is invoked: handler(req, res, next, config) runs
InvokeConfigured == \E b \in Behaviours : InvokeMiddleware(ConfiguredNames, b)

\* chain = () => mw(req, res, chain) where mw is a { handler, options }
\* object: TypeError, caught by the catch of _createApiHandler
InvokeNotAFunction ==
    /\ pc = "run"
    /\ chain[pos] \in DefinitionNames
    /\ response' = ErrorResponse
    /\ pc' = "done"
    /\ stack' = <<>>
    /\ UNCHANGED <<req, resolved, chain, pos, nextCalled, log, received, stopper, vinput,
                   errors, result>>
    /\ UNCHANGED serverVars
    /\ UNCHANGED outsideApiVars

\* the validation middleware runs
InvokeValidation(input) ==
    /\ pc = "run"
    /\ chain[pos] = "validation"
    /\ log' = Append(log, "validation")
    /\ LET step == ValidationStep(resolved.route.schema, req, input)
       IN  /\ errors' = step.errors
           /\ vinput' = IF step.ran THEN input ELSE NoInput
           /\ req' = [req EXCEPT !.validated = step.validated]
           /\ IF step.do = "next"
              THEN /\ stack' = Append(stack, pos)
                   /\ nextCalled' = nextCalled \cup {pos}
                   /\ pos' = NextLink(pos)
                   /\ UNCHANGED <<pc, result>>
              ELSE /\ result' = ValidationFailed(step.errors)
                   /\ pc' = "unwind"
                   /\ UNCHANGED <<stack, nextCalled, pos>>
    /\ UNCHANGED <<resolved, chain, received, stopper, response>>
    /\ UNCHANGED serverVars
    /\ UNCHANGED outsideApiVars

\* routeChain: the route handler, or _handleSSE with the SSE handler, runs
\* and returns its response, or throws
InvokeHandler(throws) ==
    /\ pc = "run"
    /\ chain[pos] \in {"handler", "sse"}
    /\ log' = Append(log, chain[pos])
    /\ IF throws
       THEN /\ response' = ErrorResponse
            /\ pc' = "done"
            /\ stack' = <<>>
            /\ UNCHANGED result
       ELSE /\ result' = IF chain[pos] = "sse" THEN SSEResponse ELSE HandlerResponse
            /\ pc' = "unwind"
            /\ UNCHANGED <<stack, response>>
    /\ UNCHANGED <<req, resolved, chain, pos, nextCalled, received, stopper, vinput, errors>>
    /\ UNCHANGED serverVars
    /\ UNCHANGED outsideApiVars

\* next() returns to the innermost waiting link, which returns the result
ReturnFromNext ==
    /\ pc = "unwind"
    /\ stack # <<>>
    /\ LET link == stack[Len(stack)]
       IN  /\ received' = (link :> result) @@ received
           /\ result' = IF chain[link] = "validation" THEN ValidationReturn(result)
                         ELSE result
    /\ stack' = SubSeq(stack, 1, Len(stack) - 1)
    /\ UNCHANGED <<pc, req, resolved, chain, pos, nextCalled, log, stopper, vinput,
                   errors, response>>
    /\ UNCHANGED serverVars
    /\ UNCHANGED outsideApiVars

\* lines 484-488: finalHandler() has returned
Respond ==
    /\ pc = "unwind"
    /\ stack = <<>>
    /\ response' = result
    /\ pc' = "done"
    /\ UNCHANGED <<req, resolved, chain, pos, stack, nextCalled, log, received,
                   stopper, vinput, errors, result>>
    /\ UNCHANGED serverVars
    /\ UNCHANGED outsideApiVars

\* the response is sent; the server waits for the next request
NextRequest ==
    /\ pc = "done"
    /\ entry = "" \/ wire # NoWire
    /\ entry' = ""
    /\ wire' = NoWire
    /\ pc' = "idle"
    /\ req' = NoRequest
    /\ resolved' = NotResolved
    /\ chain' = <<>>
    /\ pos' = 0
    /\ stack' = <<>>
    /\ nextCalled' = {}
    /\ log' = <<>>
    /\ received' = NoneReceived
    /\ stopper' = ""
    /\ vinput' = NoInput
    /\ errors' = <<>>
    /\ result' = NoResponse
    /\ response' = NoResponse
    /\ UNCHANGED serverVars
    /\ UNCHANGED <<pageVars, socketVars, options, sideVars>>

(***************************************************************************)
(* The page router.                                                        *)
(***************************************************************************)
\* PageRouter.loadPages: the pages array is cleared, the scan pushes the
\* definitions of every page file in the order it finds them, then the sort
LoadPages(order, failing) ==
    /\ phase = "load"
    /\ pages' = SortPages(ScanDirectory(order, failing))
    /\ scanned' = order
    /\ skipped' = skipped \cup {[router |-> "page", file |-> f] : f \in Range(order) \cap failing}
    /\ UNCHANGED <<boundary, sse, cron>>
    /\ pageReq' = <<>>
    /\ pageResolved' = PageNotResolved
    /\ UNCHANGED apiVars
    /\ UNCHANGED socketVars
    /\ UNCHANGED entryVars

\* PageRouter.resolve
ResolvePage(pieces) ==
    /\ pageReq' = pieces
    /\ LET r == PageResolve(pages, pieces)
       IN  pageResolved' = [page |-> r.page, params |-> r.params, called |-> TRUE]
    /\ UNCHANGED <<pages, scanned>>
    /\ UNCHANGED sideVars
    /\ UNCHANGED apiVars
    /\ UNCHANGED socketVars
    /\ UNCHANGED entryVars

(***************************************************************************)
(* The server entrance: the fetch handler of Server.start and              *)
(* Server.startSocket, around the handler BreezeAPI.serve gives them       *)
(* (_wrapWithCORS around _createApiHandler, or around the default          *)
(* handler).                                                               *)
(***************************************************************************)
PreflightByServer == Response(204, "", <<>>, "server")
PreflightByApi == Response(204, "OK", <<>>, "cors")
Favicon == Response(200, "icon", <<>>, "server")
FaviconMissing == Response(404, "", <<>>, "server")
WebSocketNotFound == Response(404, "WebSocket not found", <<>>, "server")
HelloFromBreezeAPI == Response(200, "Hello from BreezeAPI!", <<>>, "default")

\* request.url.endsWith('/favicon.ico')
IsFaviconRequest(pieces) == pieces # <<>> /\ pieces[Len(pieces)] = "favicon.ico"

\* _wrapWithCORS, line 271: apiRequest.method === 'OPTIONS'
IsPreflightNever(method) == FALSE
IsPreflight(method) == method = "OPTIONS"

\* BreezeAPI.serve: startSocket when both routers exist, start otherwise
WithSockets(serverOptions) == serverOptions.socketDir /\ serverOptions.apiDir

\* the fetch handler answers with a response of its own
Answer(request, branch, answer, header) ==
    /\ response' = answer
    /\ wire' = [kind |-> "response", status |-> answer.status, body |-> answer.body,
                allowHeaders |-> header, conn |-> 0]
    /\ entry' = branch
    /\ pc' = "done"
    /\ req' = [NoRequest EXCEPT !.method = request.method, !.pieces = request.pieces,
                                !.upgrade = request.upgrade]
    /\ UNCHANGED <<resolved, chain, pos, conns, root>>

\* server.upgrade(request, { data }): the connection exists, Bun calls open
Upgraded(request, branch, ws, data) ==
    /\ conns' = [conns EXCEPT ![ws] = [state |-> "upgraded", pathname |-> request.pieces,
                                       data |-> data]]
    /\ wire' = [kind |-> "upgrade", status |-> 101, body |-> "", allowHeaders |-> NoHeader,
                conn |-> ws]
    /\ entry' = branch
    /\ pc' = "done"
    /\ req' = [NoRequest EXCEPT !.method = request.method, !.pieces = request.pieces,
                                !.upgrade = request.upgrade]
    /\ UNCHANGED <<response, resolved, chain, pos, root>>

\* the headers _wrapWithCORS sets on the response of the handler, then
\* Server.addCorsHeaders when options.cors is set
CorsResponseHeader(serverOptions) ==
    AddCorsHeaders(serverOptions.cors,
                   GetCORSHeaders(CorsOptions(serverOptions.cors),
                                  serverOptions.alwaysAllowedHeaders))

\* Server.start / startSocket fetch, _wrapWithCORS, and _createApiHandler
\* up to the composition of the chain
Fetch(request) ==
    /\ phase = "serve"
    /\ pc = "idle"
    /\ request.upgrade => \E c \in Sockets : conns[c].state = "none"
    /\ LET ws == CHOOSE c \in Sockets :
                     /\ conns[c].state = "none"
                     /\ \A d \in Sockets : conns[d].state = "none" => c <= d
           match == WsMatchRoute(wsRoutes, request.pieces)
       IN  IF request.method = "OPTIONS" /\ options.cors.present
           THEN Answer(request, "server preflight", PreflightByServer,
                       AddCorsHeaders(options.cors, NoHeader))
           ELSE IF WithSockets(options) /\ options.session /\ request.upgrade
           THEN \* lines 238-245: upgraded without data; what the handler
                \* returns afterwards is of no use to the connection
                Upgraded(request, "session upgrade", ws, NoData)
           ELSE IF IsFaviconRequest(request.pieces) /\ options.favicon
           THEN \E readable \in BOOLEAN :
                    Answer(request, "favicon",
                           IF readable THEN Favicon ELSE FaviconMissing, NoHeader)
           ELSE IF WithSockets(options) /\ request.upgrade
           THEN IF match.route # NoWsRoute
                THEN Upgraded(request, "upgrade", ws,
                              DataOf(match.id,
                                     GroupPathOf(request.pieces, match.route, match.id)))
                ELSE Answer(request, "websocket not found", WebSocketNotFound, NoHeader)
           ELSE IF IsPreflight(request.method)
           THEN Answer(request, "api preflight", PreflightByApi,
                       GetCORSHeaders(CorsOptions(options.cors),
                                      options.alwaysAllowedHeaders))
           ELSE IF ~options.apiDir
           THEN Answer(request, "default handler", HelloFromBreezeAPI,
                       CorsResponseHeader(options))
           ELSE /\ Dispatch(request)
                /\ entry' = "api"
                /\ UNCHANGED <<wire, conns>>
    /\ UNCHANGED <<stack, nextCalled, log, received, stopper, vinput, errors, result>>
    /\ UNCHANGED <<phase, files, inserted, globalMiddleware, registrations>>
    /\ UNCHANGED pageVars
    /\ UNCHANGED sideVars
    /\ UNCHANGED <<options, wsRoutes, wsLoaded, socketGroups, wsEvent, lastBroadcast>>

\* a CORS layer that answers every request as it answers the preflight,
\* with new Response('OK', { status: 204, headers: corsHeaders })
WrapWithCORSNewResponse(answer, header) ==
    [kind |-> "response", status |-> 204, body |-> "OK", allowHeaders |-> header, conn |-> 0]

\* _wrapWithCORS lines 283-290: response.headers.set(k, v) on the response
\* of the handler, which is returned; Server.addCorsHeaders: new
\* Response(response.body, { status: response.status, headers })
WrapWithCORS(answer, header) ==
    [kind |-> "response", status |-> answer.status, body |-> answer.body,
     allowHeaders |-> header, conn |-> 0]

\* _wrapWithCORS lines 279-291 and the fetch handler after `await handler`:
\* the response of the API handler gets its CORS headers and goes to Bun
Send ==
    /\ pc = "done"
    /\ entry = "api"
    /\ wire = NoWire
    /\ wire' = WrapWithCORS(response, CorsResponseHeader(options))
    /\ UNCHANGED apiVars
    /\ UNCHANGED pageVars
    /\ UNCHANGED sideVars
    /\ UNCHANGED socketVars
    /\ UNCHANGED <<options, entry>>

(***************************************************************************)
(* WebSocket routes, the websocket callbacks of Server.startSocket, and    *)
(* broadcast.                                                              *)
(***************************************************************************)
\* WebSocketRouter.loadRoutes, called by serve() when both routers exist
LoadSocketRoutes(order, failing) ==
    /\ phase = "load"
    /\ WithSockets(options)
    /\ ~wsLoaded
    /\ wsLoaded' = TRUE
    /\ wsRoutes' = wsRoutes \o LoadSocketModules(order, failing)
    /\ skipped' = skipped \cup {[router |-> "socket", file |-> m.dirs] :
                                   m \in {x \in Range(order) : SocketModuleSkipped(x, failing)}}
    /\ UNCHANGED <<boundary, sse, cron>>
    /\ UNCHANGED <<socketGroups, conns, wsEvent, lastBroadcast>>
    /\ UNCHANGED apiVars
    /\ UNCHANGED pageVars
    /\ UNCHANGED entryVars

\* the callback of one event of connection ws: what happens around the
\* route's handler for that event.  A connection upgraded without data has
\* ws.data undefined, and reading ws.data.groupPath throws in the callback.
SocketEvent(kind, ws, throws, groupsAfter) ==
    LET data == conns[ws].data
    IN  IF data = NoData
        THEN /\ ~throws
             /\ wsEvent' = [kind |-> kind, conn |-> ws, path |-> <<>>, called |-> FALSE,
                            threw |-> FALSE, escaped |-> TRUE, before |-> socketGroups,
                            inside |-> {}]
             /\ UNCHANGED socketGroups
        ELSE LET route == WsMatchRoute(wsRoutes, data.groupPath).route
                 called == route # NoWsRoute /\ kind \in route.handler
             IN  /\ throws => called
                 /\ socketGroups' = groupsAfter
                 /\ wsEvent' = [kind |-> kind, conn |-> ws, path |-> data.groupPath,
                                called |-> called, threw |-> throws,
                                escaped |-> HandlerErrorEscapes(throws),
                                before |-> socketGroups,
                                \* whom wsRouter.broadcast(ws.data.groupPath, ...)
                                \* reaches when the handler calls it
                                inside |-> IF called
                                           THEN BroadcastRecipients(
                                                    GroupsAtHandler(socketGroups, groupsAfter),
                                                    data.groupPath)
                                           ELSE {}]

\* websocket.open
SocketOpen(ws, throws) ==
    /\ phase = "serve"
    /\ conns[ws].state = "upgraded"
    /\ SocketEvent("open", ws, throws,
                   IF conns[ws].data = NoData THEN socketGroups
                   ELSE AddToGroup(socketGroups, conns[ws].data.groupPath, ws))
    /\ conns' = [conns EXCEPT ![ws].state = "open"]
    /\ lastBroadcast' = NoBroadcast
    /\ UNCHANGED <<wsRoutes, wsLoaded>>
    /\ UNCHANGED apiVars
    /\ UNCHANGED pageVars
    /\ UNCHANGED sideVars
    /\ UNCHANGED entryVars

\* websocket.message
SocketMessage(ws, throws) ==
    /\ phase = "serve"
    /\ conns[ws].state = "open"
    /\ SocketEvent("message", ws, throws, socketGroups)
    /\ lastBroadcast' = NoBroadcast
    /\ UNCHANGED <<wsRoutes, wsLoaded, conns>>
    /\ UNCHANGED apiVars
    /\ UNCHANGED pageVars
    /\ UNCHANGED sideVars
    /\ UNCHANGED entryVars

\* websocket.close
SocketClose(ws, throws) ==
    /\ phase = "serve"
    /\ conns[ws].state = "open"
    /\ SocketEvent("close", ws, throws,
                   IF conns[ws].data = NoData THEN socketGroups
                   ELSE RemoveFromGroup(socketGroups, conns[ws].data.groupPath, ws))
    /\ conns' = [conns EXCEPT ![ws].state = "closed"]
    /\ lastBroadcast' = NoBroadcast
    /\ UNCHANGED <<wsRoutes, wsLoaded>>
    /\ UNCHANGED apiVars
    /\ UNCHANGED pageVars
    /\ UNCHANGED sideVars
    /\ UNCHANGED entryVars

\* websocket.drain
SocketDrain(ws, throws) ==
    /\ phase = "serve"
    /\ conns[ws].state = "open"
    /\ SocketEvent("drain", ws, throws, socketGroups)
    /\ lastBroadcast' = NoBroadcast
    /\ UNCHANGED <<wsRoutes, wsLoaded, conns>>
    /\ UNCHANGED apiVars
    /\ UNCHANGED pageVars
    /\ UNCHANGED sideVars
    /\ UNCHANGED entryVars

\* WebSocketRouter.broadcast, called by a handler or by any code that holds
\* the router (global.wsRouter)
Broadcast(path, message) ==
    /\ phase = "serve"
    /\ lastBroadcast' = [sent |-> TRUE, path |-> path, message |-> message,
                         to |-> BroadcastRecipients(socketGroups, path)]
    /\ UNCHANGED <<wsRoutes, wsLoaded, socketGroups, conns, wsEvent>>
    /\ UNCHANGED apiVars
    /\ UNCHANGED pageVars
    /\ UNCHANGED sideVars
    /\ UNCHANGED entryVars

\* WebSocketRouter.addToGroup and removeFromGroup called directly, with any
\* path and any connection
CallAddToGroup(path, ws) ==
    /\ socketGroups' = AddToGroup(socketGroups, path, ws)
    /\ wsEvent' = [NoEvent EXCEPT !.kind = "addToGroup", !.conn = ws, !.path = path,
                                  !.before = socketGroups]
    /\ lastBroadcast' = NoBroadcast
    /\ UNCHANGED <<wsRoutes, wsLoaded, conns>>
    /\ UNCHANGED apiVars
    /\ UNCHANGED pageVars
    /\ UNCHANGED sideVars
    /\ UNCHANGED entryVars

CallRemoveFromGroup(path, ws) ==
    /\ socketGroups' = RemoveFromGroup(socketGroups, path, ws)
    /\ wsEvent' = [NoEvent EXCEPT !.kind = "removeFromGroup", !.conn = ws, !.path = path,
                                  !.before = socketGroups]
    /\ lastBroadcast' = NoBroadcast
    /\ UNCHANGED <<wsRoutes, wsLoaded, conns>>
    /\ UNCHANGED apiVars
    /\ UNCHANGED pageVars
    /\ UNCHANGED sideVars
    /\ UNCHANGED entryVars

(***************************************************************************)
(* Specifications.                                                         *)
(*                                                                         *)
(* Spec: one route module with middleware, guards and schema in every      *)
(* form, and global middleware; requests run through the pipeline.         *)
(* SpecRouter: up to MaxRoutes handler-only modules; requests to every     *)
(* pathname of up to MaxPieces pieces.                                     *)
(***************************************************************************)
LoadPipelineRoute == \E m \in PipelineModules : inserted = <<>> /\ LoadRoute(m)

LoadRouterRoute == \E m \in RouterModules : Len(inserted) < MaxRoutes /\ LoadRoute(m)

Next ==
    \/ \E mw \in GlobalNames : Use(mw)
    \/ LoadPipelineRoute
    \/ Serve
    \/ \E request \in PipelineRequests : Receive(request)
    \/ InvokeGlobal
    \/ \E input \in ValidatorInputs : InvokeValidation(input)
    \/ InvokeRouteLink
    \/ \E throws \in BOOLEAN : InvokeHandler(throws)
    \/ ReturnFromNext
    \/ Respond
    \/ NextRequest

Spec == Init /\ [][Next]_vars

NextRouter ==
    \/ LoadRouterRoute
    \/ Serve
    \/ \E request \in RouterRequests : Receive(request)
    \/ \E throws \in BOOLEAN : InvokeHandler(throws)
    \/ Respond
    \/ NextRequest

SpecRouter == Init /\ [][NextRouter]_vars

\* a route with a schema behind global middleware, one of which may assign
\* req.validated
ValidatedModules ==
    [dirs : {<<"users", "[id]">>}, exports : {{"GET"}, {"GET", "POST"}},
     middleware : {Absent, ArrayOf(<<"L1">>)},
     config : {NoConfig}, schema : PipelineSchemas \ {NoSchema}]
LoadValidatedRoute == \E m \in ValidatedModules : inserted = <<>> /\ LoadRoute(m)

NextValidated ==
    \/ \E mw \in GlobalNames : Use(mw)
    \/ LoadValidatedRoute
    \/ Serve
    \/ \E request \in PipelineRequests : Receive(request)
    \/ InvokeGlobal
    \/ InvokeGlobalSettingValidated
    \/ \E input \in ValidatorInputs : InvokeValidation(input)
    \/ InvokeRouteLink
    \/ \E throws \in BOOLEAN : InvokeHandler(throws)
    \/ ReturnFromNext
    \/ Respond
    \/ NextRequest

SpecValidated == Init /\ [][NextValidated]_vars

\* errorResponse on every thrown value, request and debug flag
NextError ==
    \E error \in ThrownValues : \E request \in ErrorRequests : \E debug \in BOOLEAN :
        CatchError(error, request, debug)

SpecError == Init /\ [][NextError]_vars

\* the scan of the routes directory with dynamic and grouping folders
LoadScanRoute == \E m \in ScanModules : Len(inserted) < MaxRoutes /\ LoadRoute(m)

NextScan ==
    \/ LoadScanRoute
    \/ \E m \in ScanModules : ScanDirectoryThrows(m)
    \/ Serve
    \/ \E request \in ScanRequests : Receive(request)
    \/ \E throws \in BOOLEAN : InvokeHandler(throws)
    \/ Respond
    \/ NextRequest

SpecScan == Init /\ [][NextScan]_vars

\* route.ts files three directories deep, a static branch beside a dynamic
\* one, and the pathnames over their segments
WalkDirs == {<<"a">>, <<"a", "b">>, <<"a", "[id]">>, <<"a", "b", "c">>,
             <<"a", "[id]", "d">>}
WalkModules ==
    [dirs : WalkDirs, exports : {{"GET"}, {"POST"}}, middleware : {Absent},
     config : {NoConfig}, schema : {NoSchema}]
WalkRequests ==
    [method : RequestMethods, pieces : SeqsUpTo({"a", "b", "c", "d"}, 3) \ {<<>>},
     upgrade : {FALSE}]
LoadWalkRoute == \E m \in WalkModules : Len(inserted) < MaxRoutes /\ LoadRoute(m)

NextWalk ==
    \/ LoadWalkRoute
    \/ Serve
    \/ \E request \in WalkRequests : Receive(request)
    \/ \E throws \in BOOLEAN : InvokeHandler(throws)
    \/ Respond
    \/ NextRequest

SpecWalk == Init /\ [][NextWalk]_vars

\* two route.ts files of the same route path, users/[id]/route.ts and
\* (g)/users/[id]/route.ts, with their own handlers, middleware and schema
CollidingModules ==
    [dirs : {<<"users", "[id]">>, <<"(g)", "users", "[id]">>},
     exports : {{"GET"}, {"GET", "POST"}},
     middleware : {Absent, ArrayOf(<<"L1">>)},
     config : {NoConfig},
     schema : {NoSchema, SchemaOf([k \in {"get"} |-> MethodSchema(TRUE, TRUE, FALSE)])}]
LoadCollidingRoute == \E m \in CollidingModules : Len(inserted) < MaxRoutes /\ LoadRoute(m)

NextColliding ==
    \/ LoadCollidingRoute
    \/ Serve
    \/ \E request \in PipelineRequests : Receive(request)
    \/ \E input \in ValidatorInputs : InvokeValidation(input)
    \/ InvokeRouteLink
    \/ \E throws \in BOOLEAN : InvokeHandler(throws)
    \/ ReturnFromNext
    \/ Respond
    \/ NextRequest

SpecColliding == Init /\ [][NextColliding]_vars

\* a route with a schema whose validators may throw, behind global
\* middleware, guards and route middleware that may throw
ThrowingInputs == [params : {"ok", "throws"}, query : {"ok", "throws"},
                   body : {"ok", "throws"}]
ThrowingModules ==
    [dirs : {<<"users", "[id]">>}, exports : {{"GET"}},
     middleware : {Absent, ArrayOf(<<"L1">>)},
     config : [middleware : {Absent}, guards : {Absent, ArrayOf(<<"G1">>)},
               methods : {EmptyParams}],
     schema : PipelineSchemas \ {NoSchema}]
LoadThrowingRoute == \E m \in ThrowingModules : inserted = <<>> /\ LoadRoute(m)

NextThrows ==
    \/ \E mw \in GlobalNames : Use(mw)
    \/ LoadThrowingRoute
    \/ Serve
    \/ \E request \in PipelineRequests : Receive(request)
    \/ InvokeGlobal
    \/ \E input \in ThrowingInputs : InvokeValidation(input)
    \/ InvokeRouteLink
    \/ \E throws \in BOOLEAN : InvokeHandler(throws)
    \/ ReturnFromNext
    \/ Respond
    \/ NextRequest

SpecThrows == Init /\ [][NextThrows]_vars

\* guards and middleware registered with options
LoadOptionsRoute == \E m \in OptionsModules : inserted = <<>> /\ LoadRoute(m)

NextOptions ==
    \/ \E mw \in GlobalNames : Use(mw)
    \/ LoadOptionsRoute
    \/ Serve
    \/ \E request \in OptionsRequests : Receive(request)
    \/ InvokeGlobal
    \/ InvokeRouteLink
    \/ InvokeConfigured
    \/ InvokeNotAFunction
    \/ \E throws \in BOOLEAN : InvokeHandler(throws)
    \/ ReturnFromNext
    \/ Respond
    \/ NextRequest

SpecOptions == Init /\ [][NextOptions]_vars

\* routes with an SSE export: one module, global middleware, every request
LoadSSERoute == \E m \in SSEModules : inserted = <<>> /\ LoadRoute(m)

NextSSE ==
    \/ \E mw \in GlobalNames : Use(mw)
    \/ LoadSSERoute
    \/ Serve
    \/ \E request \in SSERequests : Receive(request)
    \/ InvokeGlobal
    \/ InvokeRouteLink
    \/ \E throws \in BOOLEAN : InvokeHandler(throws)
    \/ ReturnFromNext
    \/ Respond
    \/ NextRequest

SpecSSE == Init /\ [][NextSSE]_vars

\* the page router alone: page files scanned in every order, every pathname
NextPages ==
    \/ \E order \in ScanOrders : LoadPages(order, {})
    \/ \E pieces \in PageRequests : ResolvePage(pieces)

SpecPages == Init /\ [][NextPages]_vars

\* WebSocket connections on a server with an API directory and a socket
\* directory
InitSocket == InitWith(SocketOptions)

NextSocket ==
    \/ \E order \in SocketScanOrders : LoadSocketRoutes(order, {})
    \/ Serve
    \/ \E request \in SocketRequests : Fetch(request)
    \/ NextRequest
    \/ \E ws \in Sockets, throws \in BOOLEAN : SocketOpen(ws, throws)
    \/ \E ws \in Sockets, throws \in BOOLEAN : SocketMessage(ws, throws)
    \/ \E ws \in Sockets, throws \in BOOLEAN : SocketClose(ws, throws)
    \/ \E ws \in Sockets, throws \in BOOLEAN : SocketDrain(ws, throws)
    \/ \E path \in SocketPaths, message \in Messages : Broadcast(path, message)

SpecSocket == InitSocket /\ [][NextSocket]_vars

\* socket.ts files below dynamic folders at every depth, and upgrade
\* requests on the pathnames of their routes
MatchModules ==
    [dirs : {<<"chat">>, <<"chat", "[id]">>, <<"[id]", "chat">>, <<"[id]", "[name]">>},
     handlers : {WsHandlerNames}]
MatchScanOrders ==
    {order \in SeqsUpTo(MatchModules, 2) :
        \A i, j \in 1..Len(order) : i # j => order[i].dirs # order[j].dirs}
MatchRequests ==
    [method : {"GET"},
     pieces : {<<"socket", "chat">>, <<"socket", "chat", "room1">>,
               <<"socket", "room1", "chat">>, <<"socket", "room1", "room2">>,
               <<"socket", "chat", "chat">>, <<"socket", "lobby">>},
     upgrade : {TRUE}]

NextMatch ==
    \/ \E order \in MatchScanOrders : LoadSocketRoutes(order, {})
    \/ Serve
    \/ \E request \in MatchRequests : Fetch(request)
    \/ NextRequest

SpecMatch == InitSocket /\ [][NextMatch]_vars

\* the group registry under direct calls of addToGroup and removeFromGroup
NextGroups ==
    \/ Serve
    \/ \E path \in SocketPaths, ws \in Sockets : CallAddToGroup(path, ws)
    \/ \E path \in SocketPaths, ws \in Sockets : CallRemoveFromGroup(path, ws)
    \/ \E path \in SocketPaths, message \in Messages : Broadcast(path, message)

SpecGroups == InitSocket /\ [][NextGroups]_vars

\* start-up with route.ts, page and socket.ts files, any of which may fail
\* to import
LoadPageOrders == {order \in ScanOrders : Range(order) \subseteq {<<"a", "b.tsx">>, <<"a.html">>}}
LoadStartupRoute == \E m \in ScanModules : Len(inserted) < MaxRoutes /\ LoadRoute(m)

NextLoad ==
    \/ LoadStartupRoute
    \/ \E m \in ScanModules : LoadRouteModuleThrows(m)
    \/ \E order \in LoadPageOrders : \E failing \in SUBSET Range(order) :
           scanned = <<>> /\ LoadPages(order, failing)
    \/ \E order \in SocketScanOrders : \E failing \in SUBSET Range(order) :
           LoadSocketRoutes(order, failing)
    \/ Serve

SpecLoad == InitSocket /\ [][NextLoad]_vars

\* the server entrance under every configuration of the model: one API
\* route, one socket route, requests with and without the Upgrade header
InitServer == \E serverOptions \in ServerConfigs : InitWith(serverOptions)

LoadServerRoute == inserted = <<>> /\ LoadRoute(ServerModule)

NextServer ==
    \/ LoadServerRoute
    \/ LoadSocketRoutes(<<ServerSocketModule>>, {})
    \/ Serve
    \/ \E request \in ServerRequests : Fetch(request)
    \/ \E throws \in BOOLEAN : InvokeHandler(throws)
    \/ Respond
    \/ Send
    \/ NextRequest

SpecServer == InitServer /\ [][NextServer]_vars

\* the whole pipeline behind the server entrance, with and without
\* options.cors: a route with a schema, guards and a middleware export
CorsServerConfigs ==
    {OptionsOf(TRUE, FALSE, FALSE, FALSE, cors, DefaultAlwaysAllowedHeaders) :
        cors \in {NoCors, CorsOf(ArrayOf(<<"X-Custom">>))}}
CorsServerRequests ==
    [method : {"GET", "POST"}, pieces : {<<"users", "7">>, <<"nowhere">>}, upgrade : {FALSE}]
InitCors == \E serverOptions \in CorsServerConfigs : InitWith(serverOptions)

NextCors ==
    \/ LoadThrowingRoute
    \/ Serve
    \/ \E request \in CorsServerRequests : Fetch(request)
    \/ \E input \in ValidatorInputs : InvokeValidation(input)
    \/ InvokeRouteLink
    \/ \E throws \in BOOLEAN : InvokeHandler(throws)
    \/ ReturnFromNext
    \/ Respond
    \/ Send
    \/ NextRequest

SpecCors == InitCors /\ [][NextCors]_vars

(***************************************************************************)
(* Vocabulary of the properties.                                           *)
(***************************************************************************)
\* the request pathname is a concrete instance of the route path
PathMatches(path, segments) ==
    /\ Len(path) = Len(segments)
    /\ \A i \in 1..Len(path) : IsDynamic(path[i]) \/ path[i] = segments[i]

RequestSegments == Segments(NormalizePath(req.pieces))

MatchingRoutes == {i \in 1..Len(inserted) : PathMatches(inserted[i].path, RequestSegments)}

DocumentationEndpoint == req.pieces \in {<<"docs">>, <<"openapi.json">>}

\* the route the request resolved to, and what its module declares
Matched == resolved.route # NoRoute
DeclaredGuards == resolved.route.config.guards.items
IsGuard(name) == name \in GuardNames
IsGlobal(name) == name \in GlobalNames

\* the links invoked before the i-th invocation
Before(i) == SubSeq(log, 1, i - 1)

\* where the route middleware of a link comes from
SourceOf(name) ==
    CASE name \in MethodNames -> "config[method].middleware"
      [] name \in ConfigNames -> "config.middleware"
      [] name \in LegacyNames -> "middleware export"
      [] OTHER -> "none"

RouteMiddlewareSources ==
    {SourceOf(log[i]) : i \in {j \in 1..Len(log) : SourceOf(log[j]) # "none"}}

\* the method schema of the request, and its sections that fail on the input
RequestMethodSchema == resolved.route.schema.methods[ToLowerCase(req.method)]
Sections == <<"params", "query", "body">>
Fails(section) == RequestMethodSchema[section] /\ vinput[section] # "ok"
ValidatorsRan == vinput # NoInput

(***************************************************************************)
(* C1.  A request whose path matches no route is answered 404 "Route not   *)
(* found"; a request whose path matches a route that has no handler for    *)
(* the request method is answered 405 "Method Not Allowed", never 404.     *)
(* (Stated for the requests other than /docs and /openapi.json.)           *)
(***************************************************************************)
C1_NotFoundOrMethodNotAllowed ==
    (pc = "done" /\ ~DocumentationEndpoint) =>
        /\ (MatchingRoutes = {} => response = RouteNotFound)
        /\ (/\ MatchingRoutes # {}
            /\ \A i \in MatchingRoutes : ToUpperCase(req.method) \notin inserted[i].handlers)
           => response = MethodNotAllowed

(***************************************************************************)
(* C2.  On a matched route that declares guards, a route middleware or the *)
(* handler is invoked only after every declared guard was invoked, in      *)
(* registration order, and called next(), whichever source supplies the    *)
(* route middleware.                                                       *)
(***************************************************************************)
C2_GuardsBeforeRouteChain ==
    Matched =>
        \A i \in 1..Len(log) :
            (log[i] = "handler" \/ SourceOf(log[i]) # "none") =>
                /\ SelectSeq(Before(i), IsGuard) = DeclaredGuards
                /\ \A j \in 1..(i - 1) : IsGuard(log[j]) => j \in nextCalled

(***************************************************************************)
(* C3.  If a guard returns a response without calling next(), the          *)
(* validation middleware of that request never executes: no validator is   *)
(* run and req.validated is not set.                                       *)
(***************************************************************************)
C3_GuardBlockSkipsValidation ==
    stopper \in GuardNames =>
        /\ \A i \in 1..Len(log) : log[i] # "validation"
        /\ ~ValidatorsRan
        /\ req.validated = Unset

(***************************************************************************)
(* C4.  If a guard or route middleware returns a response R without        *)
(* calling next(), every global middleware that called next() receives R   *)
(* as the result of next(), and R is the response of the request.          *)
(***************************************************************************)
C4_BlockedResponsePropagates ==
    (pc = "done" /\ stopper \in RouteLinkNames) =>
        /\ response = OwnResponse(stopper)
        /\ \A i \in 1..Len(log) :
               (IsGlobal(log[i]) /\ i \in nextCalled) =>
                   (i \in DOMAIN received /\ received[i] = OwnResponse(stopper))

C4_Witness ==
    /\ pc = "done"
    /\ stopper \in GuardNames
    /\ Len(SelectSeq(log, IsGlobal)) = 2
    /\ \E i \in 1..Len(log) : log[i] = "validation"
    /\ response = OwnResponse(stopper)

DocumentedRank(name) ==
    CASE name \in GuardNames -> 1
      [] SourceOf(name) # "none" -> 2
      [] name = "validation" -> 3
      [] name \in GlobalNames -> 4
      [] OTHER -> 5

C6_DocumentedExecutionOrder ==
    \A i, j \in 1..Len(log) : i < j => DocumentedRank(log[i]) <= DocumentedRank(log[j])

C8_OneEntryPerFailingSection ==
    ValidatorsRan =>
        /\ [i \in 1..Len(errors) |-> errors[i].field] = SelectSeq(Sections, Fails)
        /\ (pc = "done" /\ errors # <<>>) => response.errors = errors

C8_Witness ==
    /\ pc = "done"
    /\ ValidatorsRan
    /\ Fails("params")
    /\ Fails("query")
    /\ Len(response.errors) = 2

(***************************************************************************)
(* C9.  The route middleware that execute for a request come from exactly  *)
(* one source, chosen by precedence: config[method].middleware, else       *)
(* config.middleware, else the legacy middleware export.                   *)
(***************************************************************************)
PrecedenceSource ==
    IF ToLowerCase(req.method) \in DOMAIN resolved.route.config.methods
    THEN "config[method].middleware"
    ELSE IF Truthy(resolved.route.config.middleware)
    THEN "config.middleware"
    ELSE "middleware export"

C9_OneMiddlewareSource ==
    /\ Cardinality(RouteMiddlewareSources) <= 1
    /\ (Matched /\ response = HandlerResponse)
           => RouteMiddlewareSources \subseteq {PrecedenceSource}

(***************************************************************************)
(* C10.  Trie round trip.                                                  *)
(***************************************************************************)
\* the pathname is the route path with a non-empty value for each dynamic
\* segment ("/" for the route at the root)
IsConcreteInstance(path, pieces) ==
    IF path = <<>> THEN pieces = <<"">>
    ELSE /\ Len(pieces) = Len(path)
         /\ \A k \in 1..Len(path) :
                pieces[k] # "" /\ (IsDynamic(path[k]) \/ path[k] = pieces[k])

DynamicLevels(path) == {k \in 1..Len(path) : IsDynamic(path[k])}

\* each parameter name of the route path with the value substituted for it
SubstitutedParams(path, pieces) ==
    [n \in {ParamNameOf(path[k]) : k \in DynamicLevels(path)} |->
        pieces[CHOOSE k \in DynamicLevels(path) : ParamNameOf(path[k]) = n]]

\* the place of a route path in the tree of paths: its segments, with every
\* dynamic segment taken as the same one
Place(path) == [k \in 1..Len(path) |-> IF IsDynamic(path[k]) THEN ParamEdge ELSE path[k]]
Prefix(path, k) == SubSeq(path, 1, k)

\* a later route was inserted at the same place
Overwritten(i) ==
    \E j \in (i + 1)..Len(inserted) : Place(inserted[j].path) = Place(inserted[i].path)

\* a later route passes through a dynamic segment of route i under another name
Renamed(i) ==
    \E j \in (i + 1)..Len(inserted) : \E k \in DynamicLevels(inserted[i].path) :
        /\ Len(inserted[j].path) >= k
        /\ Place(Prefix(inserted[j].path, k)) = Place(Prefix(inserted[i].path, k))
        /\ inserted[j].path[k] # inserted[i].path[k]

\* a value substituted for a dynamic segment of route i is a static segment
\* of some inserted route at that place
Shadowed(i, pieces) ==
    \E j \in 1..Len(inserted) : \E k \in DynamicLevels(inserted[i].path) :
        /\ Len(inserted[j].path) >= k
        /\ Place(Prefix(inserted[j].path, k - 1)) = Place(Prefix(inserted[i].path, k - 1))
        /\ inserted[j].path[k] = pieces[k]

RoundTrip(i) ==
    /\ resolved.route = inserted[i]
    /\ resolved.params = SubstitutedParams(inserted[i].path, req.pieces)

IsStaticPath(path) == \A k \in 1..Len(path) : ~IsDynamic(path[k])

\* the static pages whose path is the pathname of the request
StaticPagesOfRequest ==
    {i \in 1..Len(pages) :
        /\ IsStaticPath(pages[i].path)
        /\ pages[i].path = NormalizePath(pageReq)}

C11_StaticPageWins ==
    (pageResolved.called /\ StaticPagesOfRequest # {}) =>
        /\ pageResolved.page # NoPage
        /\ IsStaticPath(pageResolved.page.path)
        /\ \E i \in StaticPagesOfRequest : pageResolved.page = pages[i]
        /\ pageResolved.params = EmptyParams

C11_Witness ==
    /\ pageResolved.called
    /\ scanned = <<(<<"a", "[id]", "index.tsx">>), (<<"a", "b.tsx">>)>>
    /\ pageReq = <<"pages", "a", "b">>
    /\ pageResolved.page = [path |-> <<"pages", "a", "b">>, handler |-> <<"a", "b.tsx">>]
    /\ \E i \in 1..Len(pages) : MatchRoute(pageReq, pages[i].path).matched
                                   /\ ~IsStaticPath(pages[i].path)

(***************************************************************************)
(* Vocabulary of the WebSocket properties.                                 *)
(***************************************************************************)
Members(groups, g) == GetGroupSockets(groups, g)
\* the connections that are open and were upgraded on pathname g
OpenOn(g) == {c \in Sockets : conns[c].state = "open" /\ conns[c].pathname = g}
Exists(c) == conns[c].state # "none"

C13_NoEmptyGroup ==
    /\ \A g \in DOMAIN socketGroups : socketGroups[g] # {}
    /\ (lastBroadcast.sent /\ lastBroadcast.path \notin DOMAIN socketGroups)
           => lastBroadcast.to = {}

\* the last member of a group was removed, then a broadcast to its path
C13_Witness ==
    /\ wsEvent.kind = "removeFromGroup"
    /\ wsEvent.path \in DOMAIN wsEvent.before
    /\ wsEvent.before[wsEvent.path] = {wsEvent.conn}
    /\ wsEvent.path \notin DOMAIN socketGroups
    /\ DOMAIN socketGroups # {}
    /\ lastBroadcast.sent
    /\ lastBroadcast.path = wsEvent.path
    /\ lastBroadcast.to = {}

Handled == pc = "done" /\ wire # NoWire
\* the request went into the handler of the API: route resolution, chain
InPipeline == resolved.called \/ chain # <<>> \/ log # <<>>
SocketMatch == WsMatchRoute(wsRoutes, req.pieces)

(***************************************************************************)
(* C15.  On every server that declares a socket directory, a request with  *)
(* the Upgrade: websocket header is either upgraded, when a socket route   *)
(* matches, with connection data {id, groupPath}, or answered 404          *)
(* "WebSocket not found"; it never reaches HTTP dispatch.                  *)
(***************************************************************************)
C15_UpgradeBeforeHttpDispatch ==
    (Handled /\ req.upgrade /\ options.socketDir) =>
        /\ ~InPipeline
        /\ entry \notin {"api", "default handler"}
        /\ \/ /\ wire.kind = "upgrade"
              /\ SocketMatch.route # NoWsRoute
              /\ conns[wire.conn].data = DataOf(SocketMatch.id, req.pieces)
           \/ /\ wire.kind = "response"
              /\ SocketMatch.route = NoWsRoute
              /\ response = WebSocketNotFound

(***************************************************************************)
(* C16.  An OPTIONS request is answered directly, with the 204 preflight   *)
(* response, and never enters the pipeline: no route resolution and no     *)
(* link of the chain (global middleware, validation, guard, route          *)
(* middleware, handler) is invoked for it.                                 *)
(***************************************************************************)
PreflightAnswers == {PreflightByServer, PreflightByApi}
ShortCircuited == pc = "done" /\ ~InPipeline /\ stack = <<>>

FaviconInstead ==
    options.favicon /\ ~options.cors.present /\ IsFaviconRequest(req.pieces)

CorsResponse ==
    Handled /\ entry \in {"server preflight", "api preflight", "api", "default handler"}
DuplicateFree(list) == \A i, j \in 1..Len(list) : list[i] = list[j] => i = j
ConfiguredAllowedHeaders == Range(CorsOptions(options.cors).items)

C17_AlwaysAllowedHeadersUnion ==
    CorsResponse =>
        /\ wire.allowHeaders.set
        /\ DuplicateFree(wire.allowHeaders.names)
        /\ Range(wire.allowHeaders.names)
               = ConfiguredAllowedHeaders \cup Range(options.alwaysAllowedHeaders)

(***************************************************************************)
(* C18.  A GET request to a route whose module exports an SSE (or sse)     *)
(* handler and no GET handler goes, after the middleware chain, to the SSE *)
(* execution path; the SSE path is taken for no other method and not when  *)
(* the module exports a GET handler.                                       *)
(***************************************************************************)
\* the route.ts file whose route the request names
ModuleOfRequest ==
    {f \in files : PathMatches(ConvertFilePathToRoute(f.dirs), RequestSegments)}
SSEExpected ==
    /\ req.method = "GET"
    /\ \E f \in ModuleOfRequest : f.exports \cap SSE_EXPORTS # {} /\ "GET" \notin f.exports
SSEPathTaken == "sse" \in Range(log)
\* a middleware answered itself or threw before the innermost link
StoppedBefore == stopper # "" \/ (response = ErrorResponse /\ ~SSEPathTaken)

C18_SSEOnlyForGetWithoutHandler ==
    (pc = "done" /\ req.method # "") =>
        /\ SSEPathTaken => SSEExpected /\ log = chain
        /\ SSEExpected => SSEPathTaken \/ StoppedBefore

(***************************************************************************)
(* C19.  A guard or middleware registered as {handler, options}, in the    *)
(* named mapping or as an entry of the config.guards / config.middleware   *)
(* array, is invoked per request as handler(req, res, next, options) with  *)
(* the options given at registration.                                      *)
(***************************************************************************)
\* the {handler, options} entries of the config of the resolved route
RegisteredDefinitions ==
    {e \in Range(resolved.route.config.guards.items)
            \cup Range(resolved.route.config.middleware.items) : e \in DefinitionNames}
RegisteredOptions(handler) ==
    {DefinitionOf[e].options : e \in {d \in RegisteredDefinitions :
                                        DefinitionOf[d].handler = handler}}

C19_OptionsBoundAtRegistration ==
    Matched =>
        \* the link whose turn has come is a function that can be called ...
        /\ pos \in 1..Len(chain) => chain[pos] \notin DefinitionNames
        \* ... and a handler registered with options got those options
        /\ \A i \in 1..Len(log) :
               log[i] \in ConfiguredNames =>
                   LET call == CallOf[log[i]]
                   IN  RegisteredOptions(call.handler) \subseteq {call.options, NoOptions}

(***************************************************************************)
(* C20.  Global middleware runs on every request the API handles, also a   *)
(* request whose path matches no route or whose method has no handler:     *)
(* each registered global middleware is invoked, in order, unless a global *)
(* middleware before it answered itself or threw.                          *)
(***************************************************************************)
GlobalInvoked(i) == i <= Len(log) /\ log[i] = globalMiddleware[i]
\* the last link invoked is a global middleware before the i-th, and it
\* ended the request
EndedBefore(i) ==
    /\ log # <<>>
    /\ Len(log) < i
    /\ stopper = log[Len(log)] \/ response = ErrorResponse

C20_GlobalMiddlewareOnEveryRequest ==
    (pc = "done" /\ req.method # "") =>
        \A i \in 1..Len(globalMiddleware) : GlobalInvoked(i) \/ EndedBefore(i)

(***************************************************************************)
(* C21.  In every loaded trie the dynamic child of a node carries one      *)
(* parameter name, the one declared by every route inserted through that   *)
(* child: the load aborts whenever two different dynamic segments would    *)
(* occupy the same trie level.                                             *)
(***************************************************************************)
\* the trie node route i passes at level k
NodeAt(i, k) == root[Place(Prefix(inserted[i].path, k))]

C21_OneParameterNamePerLevel ==
    phase = "serve" =>
        \A i \in 1..Len(inserted) : \A k \in DynamicLevels(inserted[i].path) :
            NodeAt(i, k).paramName = ParamNameOf(inserted[i].path[k])

(***************************************************************************)
(* C22.  A malformed or failing route module fails the load phase and      *)
(* aborts start-up: the server never starts with a route, page or socket   *)
(* module left out.                                                        *)
(***************************************************************************)
C22_NoModuleSilentlySkipped == phase = "serve" => skipped = {}

(***************************************************************************)
(* C23.  An uncaught error is answered with status 500, in a form decided  *)
(* by the debug flag and the Accept header alone: the HTML error page when *)
(* debug is on and Accept includes text/html, JSON {request, error, stack} *)
(* when debug is on otherwise, and when debug is off the fixed plain text  *)
(* "Internal Server Error", the same whatever the error.                   *)
(***************************************************************************)
ExpectedForm(request, debug) ==
    IF debug /\ AcceptsHtml(request) THEN "html"
    ELSE IF debug THEN "json" ELSE "text"

SchemaDeclared ==
    /\ Matched
    /\ resolved.route.schema.present
    /\ ToLowerCase(req.method) \in DOMAIN resolved.route.schema.methods
HandlerInvoked == "handler" \in Range(log)

C24_HandlerOnlyAfterValidation ==
    (SchemaDeclared /\ HandlerInvoked) =>
        /\ ValidatorsRan
        /\ \A k \in 1..Len(Sections) : ~Fails(Sections[k])

(***************************************************************************)
(* C25.  Resolve is static-first and never backtracks: at each level the   *)
(* walk is at the static child when the node has one for the segment, else *)
(* at the dynamic child, the segment captured under its parameter name; the *)
(* request resolves to the route of the only place such a walk reaches, or *)
(* to nothing, also when another branch holds a route for the pathname.    *)
(***************************************************************************)
\* the places a walk of the segments reaches that takes the static child
\* wherever there is one and the dynamic child only where there is none
StaticFirstPlaces(segments) ==
    {n \in DOMAIN root :
        /\ Len(n) = Len(segments)
        /\ \A k \in 1..Len(n) :
               n[k] = IF HasChild(root, Prefix(n, k - 1), segments[k])
                      THEN segments[k] ELSE ParamEdge}

\* the segments captured on the way to a place, the last one of a name kept
CapturedAt(n, segments) ==
    LET levels == {k \in 1..Len(n) : n[k] = ParamEdge}
        nameAt(k) == root[Prefix(n, k)].paramName
    IN  [name \in {nameAt(k) : k \in levels} |->
            segments[CHOOSE k \in levels :
                        /\ nameAt(k) = name
                        /\ \A j \in levels : nameAt(j) = name => j <= k]]

C25_StaticFirstNoBacktracking ==
    resolved.called =>
        LET segments == Segments(NormalizePath(req.pieces))
            reached == {n \in StaticFirstPlaces(segments) :
                           /\ root[n].route # NoRoute
                           /\ ToUpperCase(req.method) \in root[n].route.handlers}
        IN  /\ Cardinality(StaticFirstPlaces(segments)) <= 1
            /\ reached = {} => resolved = [called |-> TRUE, route |-> NoRoute,
                                           params |-> EmptyParams]
            /\ \A n \in reached :
                   /\ resolved.route = root[n].route
                   /\ resolved.params = CapturedAt(n, segments)

\* routes /a/b/c and /a/:id/d, GET /a/b/d: not found
C25_Witness ==
    /\ resolved.called
    /\ {inserted[i].path : i \in 1..Len(inserted)} = {<<"a", "b", "c">>, <<"a", ":id", "d">>}
    /\ \A i \in 1..Len(inserted) : "GET" \in inserted[i].handlers
    /\ req.method = "GET"
    /\ req.pieces = <<"a", "b", "d">>
    /\ resolved.route = NoRoute

(***************************************************************************)
(* C26.  Two routes whose paths end at the same trie node leave the node   *)
(* bound to exactly the last one inserted: a request resolved there gets   *)
(* the last route or nothing, a method only the earlier route handles does *)
(* not resolve, and the links and validators that run are those of the     *)
(* last route.                                                             *)
(***************************************************************************)
\* the last route inserted at the place of route i
LastAt(i) ==
    inserted[CHOOSE j \in i..Len(inserted) :
                /\ Place(inserted[j].path) = Place(inserted[i].path)
                /\ ~Overwritten(j)]

ValidatorThrew ==
    /\ Matched
    /\ ValidatorsRan
    /\ \E k \in 1..Len(Sections) :
           /\ RequestMethodSchema[Sections[k]]
           /\ vinput[Sections[k]] = "throws"
           /\ Sections[k] = "params" => req.paramsSet

\* the invocations are those of the links up to the current one, each once
NoLinkTwice ==
    /\ Len(log) = pos
    /\ \A k \in 1..Len(log) : log[k] = chain[k]

C27_ThrowEndsInOneErrorResponse ==
    /\ (pc = "done" /\ ValidatorThrew) =>
           /\ response = ErrorResponse
           /\ log[Len(log)] = "validation"
    /\ (pc = "done" /\ response = ErrorResponse) =>
           /\ NoLinkTwice
           /\ received = NoneReceived

(***************************************************************************)
(* C28.  With links that call next() at most once, each link and the       *)
(* handler are invoked at most once, one after another (a link starts only *)
(* after its predecessor called next()), and the handler is invoked only   *)
(* when every link before it called next().                                *)
(***************************************************************************)
C28_EachLinkOnceInSequence ==
    /\ Len(log) <= Len(chain)
    /\ \A k \in 1..Len(log) :
           /\ log[k] = chain[k]
           /\ k > 1 => (k - 1) \in nextCalled
    /\ nextCalled \subseteq 1..Len(log)
    /\ HandlerInvoked =>
           /\ Len(log) = Len(chain)
           /\ \A k \in 1..(Len(chain) - 1) : k \in nextCalled

\* two global middleware, validation, two guards, a route middleware and
\* the handler, each invoked once
C28_Witness ==
    /\ pc = "done"
    /\ log = chain
    /\ Len(chain) = 7
    /\ chain[7] = "handler"
    /\ nextCalled = 1..6
    /\ response = HandlerResponse

(***************************************************************************)
(* C29.  matchRoute returns the route whose path equals the pathname when  *)
(* there is one, whatever the registration order; otherwise a route whose  *)
(* last segment is its single dynamic segment, with as many segments as    *)
(* the pathname and the other segments equal, and id = the last segment of *)
(* the pathname; otherwise no route.  An upgrade request is upgraded with  *)
(* that id exactly when a route is returned.                               *)
(***************************************************************************)
\* the last segment of the route path is its only dynamic segment
LastSegmentOnlyDynamic(path) ==
    /\ path # <<>>
    /\ \A k \in 1..Len(path) : IsDynamic(path[k]) <=> k = Len(path)

\* the routes the pathname may match through their last, dynamic segment
DynamicCandidates(routes, pathname) ==
    {i \in 1..Len(routes) :
        /\ LastSegmentOnlyDynamic(routes[i].path)
        /\ Len(routes[i].path) = Len(pathname)
        /\ \A k \in 1..(Len(pathname) - 1) : routes[i].path[k] = pathname[k]}

C29_MatchRouteExactThenLastDynamic ==
    (Handled /\ req.upgrade) =>
        LET exact == {i \in 1..Len(wsRoutes) : wsRoutes[i].path = req.pieces}
            candidates == DynamicCandidates(wsRoutes, req.pieces)
        IN  /\ exact # {} =>
                   /\ SocketMatch.route.path = req.pieces
                   /\ SocketMatch.id = NoId
            /\ (exact = {} /\ candidates # {}) =>
                   /\ \E i \in candidates : SocketMatch.route = wsRoutes[i]
                   /\ SocketMatch.id = req.pieces[Len(req.pieces)]
            /\ (exact = {} /\ candidates = {}) => SocketMatch.route = NoWsRoute
            /\ wire.kind = "upgrade" <=> SocketMatch.route # NoWsRoute
            /\ wire.kind = "upgrade" => conns[wire.conn].data.id = SocketMatch.id

(***************************************************************************)
(* C30.  After any interleaving of open and close events of several        *)
(* connections, the group stored under path p is exactly the set of the    *)
(* connections with groupPath p that have been opened and not yet closed,  *)
(* and every connection is a member of at most one group, the one keyed by *)
(* its own groupPath.                                                      *)
(***************************************************************************)
\* the connections with groupPath p that are open
OpenWithGroupPath(p) ==
    {c \in Sockets : /\ conns[c].state = "open"
                     /\ conns[c].data # NoData
                     /\ conns[c].data.groupPath = p}

GroupsOf(c) == {g \in DOMAIN socketGroups : c \in socketGroups[g]}

C30_GroupIsOpenConnections ==
    /\ \A p \in DOMAIN socketGroups \cup SocketPaths :
           Members(socketGroups, p) = OpenWithGroupPath(p)
    /\ \A c \in Sockets :
           /\ Cardinality(GroupsOf(c)) <= 1
           /\ GroupsOf(c) # {} =>
                  /\ conns[c].data # NoData
                  /\ GroupsOf(c) = {conns[c].data.groupPath}

\* open of 1, open of 2 on the same path, close of 1: the group holds 2
C30_Witness ==
    /\ wsEvent.kind = "close"
    /\ wsEvent.conn = 1
    /\ wsEvent.before[wsEvent.path] = {1, 2}
    /\ conns[1].state = "closed"
    /\ conns[2].state = "open"
    /\ conns[1].data.groupPath = conns[2].data.groupPath
    /\ socketGroups = (conns[2].data.groupPath :> {2})

(***************************************************************************)
(* C31.  addToGroup and removeFromGroup are idempotent: adding a           *)
(* connection that is a member already, or removing one that is not a      *)
(* member (also of a group that does not exist), leaves the registry as it *)
(* was.                                                                    *)
(***************************************************************************)
MemberBefore == wsEvent.conn \in Members(wsEvent.before, wsEvent.path)

C31_GroupCallsIdempotent ==
    /\ (wsEvent.kind = "addToGroup" /\ MemberBefore) => socketGroups = wsEvent.before
    /\ (wsEvent.kind = "removeFromGroup" /\ ~MemberBefore) => socketGroups = wsEvent.before

\* a connection that is not a member is removed from a group that exists
C31_Witness ==
    /\ wsEvent.kind = "removeFromGroup"
    /\ wsEvent.path \in DOMAIN wsEvent.before
    /\ ~MemberBefore
    /\ socketGroups = wsEvent.before
    /\ socketGroups[wsEvent.path] # {}

(***************************************************************************)
(* C32.  A page matches only a request path of as many segments as its     *)
(* own; the resolved page is the first of the matching pages in the order  *)
(* (higher specificity first, ties by ascending path); and the result is   *)
(* the same for every order in which the same page files are registered.   *)
(***************************************************************************)
MatchingPages ==
    {i \in 1..Len(pages) : MatchRoute(NormalizePath(pageReq), pages[i].path).matched}

\* the orders in which a scan may find the page files that were scanned
RegistrationOrders == {order \in ScanOrders : Range(order) = Range(scanned)}

PagesInOrder ==
    \A i, j \in 1..Len(pages) : i < j => CompareRoutes(pages[i], pages[j]) <= 0

FirstMatchingPageWins ==
    /\ MatchingPages = {} => pageResolved.page = NoPage
    /\ MatchingPages # {} =>
           /\ \E i \in MatchingPages :
                  /\ pageResolved.page = pages[i]
                  /\ \A j \in MatchingPages : i <= j
           /\ \A j \in MatchingPages : CompareRoutes(pageResolved.page, pages[j]) <= 0
           /\ Len(Segments(pageResolved.page.path)) = Len(Segments(NormalizePath(pageReq)))

SameForEveryRegistrationOrder ==
    \A order \in RegistrationOrders :
        PageResolve(SortPages(ScanDirectory(order, {})), pageReq).page = pageResolved.page

C32_FirstInOrderWhateverTheRegistration ==
    pageResolved.called =>
        /\ PagesInOrder
        /\ FirstMatchingPageWins
        /\ SameForEveryRegistrationOrder

(***************************************************************************)
(* C33.  The CORS layer changes only headers: the response that goes to    *)
(* the client for a request handled by the pipeline has the status and the *)
(* body of the response the pipeline produced (200, 400, 403, 404, 500),   *)
(* and the CORS headers.                                                   *)
(***************************************************************************)
\* the response of the pipeline has gone through the CORS layer
SentByApi == Handled /\ entry = "api"

C33_CorsChangesOnlyHeaders ==
    SentByApi =>
        /\ wire.kind = "response"
        /\ wire.status = response.status
        /\ wire.body = response.body
        /\ wire.allowHeaders = CorsResponseHeader(options)
        /\ wire.allowHeaders.set

\* a 400 of the validation middleware, sent with the CORS headers
C33_Witness ==
    /\ SentByApi
    /\ options.cors # NoCors
    /\ response = ValidationFailed(errors)
    /\ errors # <<>>
    /\ wire.status = 400
    /\ wire.body = "errors"
    /\ wire.allowHeaders.set

(***************************************************************************)
(* The stream of one _handleSSE call.                                      *)
(***************************************************************************)
\* send(data, event), lines 527-533, on the stream s
SendOn(s, data, event) ==
    IF s.closed
    THEN [s EXCEPT !.calls = Append(@, [data |-> data, event |-> event, gone |-> s.gone])]
    ELSE LET sent == ResSend(s.out, SSEPayload(data, event), FALSE)
         IN [s EXCEPT !.calls = Append(@, [data |-> data, event |-> event, gone |-> s.gone]),
                      !.out = sent.out,
                      !.thrown = @ + (IF sent.threw THEN 1 ELSE 0)]

\* _handleSSE, lines 510-576, called with the handler h: the handler runs
\* (a send in its body throws what res.send throws, and _handleSSE rejects);
\* then the pump starts for a returned stream, or the close listener is
\* registered when the request has `on`
HandleSSE(h) ==
    /\ sse = NoStream
    /\ LET started == [NoStream EXCEPT !.style = h.style, !.arity = h.arity,
                                       !.source = h.source, !.failing = h.failing]
           inBody == IF h.arity = 3 /\ h.first
                     THEN SendOn(started, CHOOSE d \in SSEData : d.type = "object", "")
                     ELSE started
       IN sse' = IF inBody.thrown > 0
                 THEN [inBody EXCEPT !.rejected = TRUE]
                 ELSE IF h.style = "pull"
                      THEN [inBody EXCEPT !.pump = "running"]
                      ELSE [inBody EXCEPT !.listening = RequestHasOn]
    /\ UNCHANGED <<skipped, boundary, cron>>
    /\ UNCHANGED <<apiVars, pageVars, socketVars, entryVars>>

\* the handler calls send(data, event) after it returned (a timer, an emitter)
SSESend(data, event) ==
    /\ sse.style = "push" /\ sse.arity = 3 /\ ~sse.rejected
    /\ Len(sse.calls) < MaxSends
    /\ sse' = SendOn(sse, data, event)
    /\ UNCHANGED <<skipped, boundary, cron>>
    /\ UNCHANGED <<apiVars, pageVars, socketVars, entryVars>>

\* the client goes away; lines 567-570 run if the close listener was registered
ClientDisconnect ==
    /\ sse.style # "none" /\ ~sse.rejected
    /\ ~sse.gone
    /\ sse' = IF sse.listening
              THEN LET ended == ResSend(sse.out, EmptyPayload, TRUE)
                   IN [sse EXCEPT !.gone = TRUE, !.closed = TRUE, !.out = ended.out,
                                  !.thrown = @ + (IF ended.threw THEN 1 ELSE 0)]
              ELSE [sse EXCEPT !.gone = TRUE]
    /\ UNCHANGED <<skipped, boundary, cron>>
    /\ UNCHANGED <<apiVars, pageVars, socketVars, entryVars>>

\* one turn of pump, lines 553-562: a read, then the chunk is sent, or the
\* loop ends and the connection is closed; what is thrown goes to the catch
\* of line 562, which closes the connection
PumpRead ==
    /\ sse.pump = "running"
    /\ LET n == sse.read + 1
           rejects == n = sse.failing
           done == ~rejects /\ n > Len(sse.source)
           attempt == IF rejects THEN [out |-> sse.out, threw |-> TRUE]
                      ELSE IF done THEN ResSend(sse.out, EmptyPayload, TRUE)
                      ELSE ResSend(sse.out, DecodeChunk(sse.source[n]), FALSE)
           caught == ResSend(attempt.out, EmptyPayload, TRUE)
       IN sse' = [sse EXCEPT
                     !.read = IF rejects \/ done THEN @ ELSE n,
                     !.pump = IF attempt.threw \/ done THEN "stopped" ELSE "running",
                     !.out = IF attempt.threw THEN caught.out ELSE attempt.out,
                     !.thrown = @ + (IF attempt.threw /\ caught.threw THEN 1 ELSE 0)]
    /\ UNCHANGED <<skipped, boundary, cron>>
    /\ UNCHANGED <<apiVars, pageVars, socketVars, entryVars>>

NextStream ==
    \/ \E h \in SSEHandlers : HandleSSE(h)
    \/ \E data \in SSEData, event \in SSEEvents : SSESend(data, event)
    \/ ClientDisconnect
    \/ PumpRead

SpecStream == Init /\ [][NextStream]_vars

(***************************************************************************)
(* C34.  Push-style SSE: each send(data, event?) before the client         *)
(* disconnects writes exactly one frame (the event line if an event is     *)
(* given, the data line, a blank line) and does not close the connection;  *)
(* when the client has disconnected the stream is closed, and a send after *)
(* that writes nothing.                                                    *)
(***************************************************************************)
RECURSIVE FramesOf(_)
FramesOf(calls) ==
    IF calls = <<>> THEN <<>>
    ELSE (IF Head(calls).gone THEN <<>>
          ELSE <<SSEPayload(Head(calls).data, Head(calls).event)>>)
         \o FramesOf(Tail(calls))

C36_RouteTablesReadOnly == [][phase = "serve" => root' = root]_vars

\* a request was resolved to a dynamic route, went through its chain and
\* its handler, and was answered
C36_Witness ==
    /\ phase = "serve"
    /\ resolved.called /\ resolved.route # NoRoute
    /\ resolved.params # EmptyParams
    /\ "handler" \in Range(log)
    /\ pc = "done"

(***************************************************************************)
(* Path compilation: route.ts and socket.ts files in plain, dynamic and    *)
(* grouping directories, loaded by the two routers of one server.          *)
(***************************************************************************)
CompileDirs == {<<"chat">>, <<"(g)", "chat">>, <<"chat", "[id]">>, <<"chat", "(g)", "[id]">>}
CompileModules ==
    [dirs : CompileDirs, exports : {{"GET"}}, middleware : {Absent},
     config : {NoConfig}, schema : {NoSchema}]
CompileSocketModules == [dirs : CompileDirs, handlers : {WsHandlerNames}]
CompileScanOrders ==
    {order \in SeqsUpTo(CompileSocketModules, 2) :
        \A i, j \in 1..Len(order) : i # j => order[i].dirs # order[j].dirs}
CompileRequests ==
    [method : {"GET"}, pieces : {<<"chat">>, <<"chat", "7">>}, upgrade : {FALSE}]
    \cup [method : {"GET"},
          pieces : {<<"socket", "chat">>, <<"socket", "chat", "7">>,
                    <<"socket", "(g)", "chat">>},
          upgrade : {TRUE}]

LoadCompileRoute == \E m \in CompileModules : Len(inserted) < MaxRoutes /\ LoadRoute(m)

NextCompile ==
    \/ LoadCompileRoute
    \/ \E order \in CompileScanOrders : LoadSocketRoutes(order, {})
    \/ Serve
    \/ \E request \in CompileRequests : Fetch(request)
    \/ \E throws \in BOOLEAN : InvokeHandler(throws)
    \/ Respond
    \/ Send
    \/ NextRequest

SpecCompile == InitSocket /\ [][NextCompile]_vars

(***************************************************************************)
(* C37.  Path compilation, for HTTP routes and WebSocket routes alike: a   *)
(* directory [name] becomes the segment :name, a directory (name) is left  *)
(* out, and the file name is no part of the path; the path of a loaded     *)
(* route is the path compiled this way from the directories of its file.   *)
(***************************************************************************)
CompiledSegments(dirs) ==
    LET kept == SelectSeq(dirs, LAMBDA d : d \notin GroupingFolders)
    IN  [i \in 1..Len(kept) |->
            IF kept[i] \in DynamicFolders THEN DynamicSegmentOf(kept[i]) ELSE kept[i]]

C37_PathCompilationForBothRouters ==
    /\ \A f \in files : \E i \in 1..Len(inserted) : inserted[i].path = CompiledSegments(f.dirs)
    /\ \A i \in 1..Len(inserted) : \E f \in files : inserted[i].path = CompiledSegments(f.dirs)
    /\ \A i \in 1..Len(wsRoutes) :
           wsRoutes[i].path = <<SocketPrefix>> \o CompiledSegments(wsRoutes[i].file)

(***************************************************************************)
(* C38.  In the open event the connection is in its group before the open  *)
(* handler of the route runs, and in the close event it is out of its      *)
(* group before the close handler runs: a broadcast to its own group from  *)
(* inside the open handler reaches the opening connection, one from inside *)
(* the close handler does not reach the closing connection.                *)
(***************************************************************************)
C38_MembershipUpdatedBeforeHandler ==
    /\ (wsEvent.kind = "open" /\ wsEvent.called) => wsEvent.conn \in wsEvent.inside
    /\ (wsEvent.kind = "close" /\ wsEvent.called) => wsEvent.conn \notin wsEvent.inside

\* a connection closed while another one stays in its group: the close
\* handler's broadcast reaches the one that stays
C38_Witness ==
    /\ wsEvent.kind = "close" /\ wsEvent.called
    /\ wsEvent.inside # {}
    /\ wsEvent.conn \notin wsEvent.inside

(***************************************************************************)
(* One cron job.                                                           *)
(***************************************************************************)
\* onTick up to `await cronFunction()`, lines 57-65, on the job c
TickOn(c) ==
    IF c.config.useTime
       /\ ~shouldExecuteTimeBased(c.lastExecution, c.config.timeBetween, c.now)
    THEN c
    ELSE [c EXCEPT !.running = @ + 1, !.starts = Append(@, c.now)]

\* registerCronJob, lines 49-87: a disabled job is not scheduled; the job
\* is started, and onTick is called at once when runOnStart is set
registerCronJob(config) ==
    /\ ~cron.registered
    /\ LET made == [cron EXCEPT !.registered = TRUE, !.config = config]
       IN  cron' = IF config.enabled /\ config.runOnStart THEN TickOn(made) ELSE made
    /\ UNCHANGED <<skipped, boundary, sse>>
    /\ UNCHANGED <<apiVars, pageVars, socketVars, entryVars>>

\* a second passes
ClockAdvances ==
    /\ cron.registered
    /\ cron.now < MaxTime * 1000
    /\ cron' = [cron EXCEPT !.now = @ + 1000, !.ticked = FALSE]
    /\ UNCHANGED <<skipped, boundary, sse>>
    /\ UNCHANGED <<apiVars, pageVars, socketVars, entryVars>>

\* the CronJob fires onTick (at most once a second), whether or not an
\* earlier call of onTick is still awaiting cronFunction
onTick ==
    /\ cron.registered /\ cron.config.enabled
    /\ ~cron.ticked
    /\ cron.running < MaxRunning
    /\ cron' = [TickOn(cron) EXCEPT !.ticked = TRUE]
    /\ UNCHANGED <<skipped, boundary, sse>>
    /\ UNCHANGED <<apiVars, pageVars, socketVars, entryVars>>

\* `await cronFunction()` settles, lines 65-69: lastExecutions[jobName] is
\* set when it resolved, and left as it was when it rejected
onTickResumes(throws) ==
    /\ cron.running > 0
    /\ cron' = [cron EXCEPT !.running = @ - 1,
                            !.lastExecution = IF throws THEN @ ELSE cron.now]
    /\ UNCHANGED <<skipped, boundary, sse>>
    /\ UNCHANGED <<apiVars, pageVars, socketVars, entryVars>>

NextCron ==
    \/ \E config \in CronConfigs : registerCronJob(config)
    \/ ClockAdvances
    \/ onTick
    \/ \E throws \in BOOLEAN : onTickResumes(throws)

SpecCron == Init /\ [][NextCron]_vars

(***************************************************************************)
(* C39.  For a cron job with useTime, two executions of the job never      *)
(* start less than timeBetween apart, also when a tick fires while an      *)
(* earlier execution of the job is still running.                          *)
(***************************************************************************)
C39_StartsTimeBetweenApart ==
    cron.config.useTime /\ parseTimeBetween(cron.config.timeBetween) # Unsupported =>
        \A i, j \in 1..Len(cron.starts) :
            i < j => cron.starts[j] - cron.starts[i] >= parseTimeBetween(cron.config.timeBetween)

====
